---------------------------- MODULE Spec2Model ----------------------------
(***************************************************************************)
(* A model of internal-link: the BM25 ranker (pkg/scorer), the markdown    *)
(* tokenizer and the link splice (pkg/markdown, held in cache.go from line *)
(* 101 on).                                                                *)
(*                                                                         *)
(* Conventions.                                                            *)
(*  - A byte string is a sequence of one-character strings.                *)
(*  - In the ranker a string (a query, a table key) is modelled by the     *)
(*    sequence of its whitespace-separated fields; a field is an atom whose*)
(*    lower-case form is given by ToLowerWord.  strings.Join(ws, " ") of   *)
(*    fields is then the sequence itself and strings.Fields of a key its   *)
(*    fields.                                                              *)
(*  - A float64 is a record [k, v]: k = "fin" with v the value in units of *)
(*    1/Scale, k = "inf" with v the sign, or k = "nan".  The arithmetic    *)
(*    follows IEEE 754 for the special values (x/0, 0/0, 0*inf, ...).      *)
(***************************************************************************)
EXTENDS Integers, Sequences, FiniteSets, TLC

VARIABLES
    docs,       \* BM25Scorer.docs: the processed documents' WordFreq tables
    avgdl,      \* BM25Scorer.avgdl
    idf,        \* BM25Scorer.idf: term -> float64
    lastScore,  \* the last Score call: [query, doc, score], or NoCall
    ins,        \* the link splice: the calls made and what they returned
    prs,        \* the tokenizer: the input, the configuration, the result
    cch,        \* the files, the clock and the cache directory
    ana         \* the analyzer: its documents and the analysis under way

vars == <<docs, avgdl, idf, lastScore, ins, prs, cch, ana>>

NoCall == [kind |-> "none"]

-----------------------------------------------------------------------------
(* float64 *)

Scale == 10 ^ 4

FFin(v) == [k |-> "fin", v |-> v]
FInf(s) == [k |-> "inf", v |-> s]
FNaN == [k |-> "nan", v |-> 0]

FromInt(n) == FFin(n * Scale)

Sign(x) == IF x < 0 THEN -1 ELSE 1

Abs(x) == IF x < 0 THEN -x ELSE x

\* integer division truncating toward zero, as float-to-fixed truncation
TDiv(a, b) == Sign(a) * Sign(b) * (Abs(a) \div Abs(b))

FAdd(a, b) ==
    IF a.k = "nan" \/ b.k = "nan" THEN FNaN
    ELSE IF a.k = "inf" /\ b.k = "inf" THEN (IF a.v = b.v THEN a ELSE FNaN)
    ELSE IF a.k = "inf" THEN a
    ELSE IF b.k = "inf" THEN b
    ELSE FFin(a.v + b.v)

FSub(a, b) == FAdd(a, IF b.k = "nan" THEN FNaN ELSE [k |-> b.k, v |-> -b.v])

FMul(a, b) ==
    IF a.k = "nan" \/ b.k = "nan" THEN FNaN
    ELSE IF a.k = "inf" \/ b.k = "inf"
         THEN (IF a.v = 0 \/ b.v = 0 THEN FNaN ELSE FInf(Sign(a.v) * Sign(b.v)))
    ELSE FFin(TDiv(a.v * b.v, Scale))

FDiv(a, b) ==
    IF a.k = "nan" \/ b.k = "nan" THEN FNaN
    ELSE IF a.k = "inf" THEN (IF b.k = "inf" THEN FNaN ELSE FInf(a.v * Sign(b.v)))
    ELSE IF b.k = "inf" THEN FFin(0)
    ELSE IF b.v = 0 THEN (IF a.v = 0 THEN FNaN ELSE FInf(Sign(a.v)))
    ELSE FFin(TDiv(a.v * Scale, b.v))

IsFinite(a) == a.k = "fin"

\* the odd-power series of 2*atanh(z), z in units of 1/Scale, 0 <= z < Scale
RECURSIVE AtanhSeries(_, _, _)
AtanhSeries(term, z2, k) ==
    IF term = 0 THEN 0
    ELSE (term \div k) + AtanhSeries((term * z2) \div Scale, z2, k + 2)

\* ln(p/q) in units of 1/Scale, for integers p, q > 0:
\* ln(p/q) = 2*atanh((p-q)/(p+q))
LnRatio(p, q) ==
    LET z == (Abs(p - q) * Scale) \div (p + q)
        z2 == (z * z) \div Scale
    IN  Sign(p - q) * 2 * AtanhSeries(z, z2, 1)


-----------------------------------------------------------------------------
(* pkg/scorer: the BM25 ranker *)

MaxDocs == 2
MaxQueryLen == 3
ScorerMaxNGram == 2

\* the fields a query may hold; "X" is the upper-case form of "x"
QueryWords == {"x", "y", "X"}

ToLowerWord(w) == IF w = "X" THEN "x" ELSE w

\* the WordFreq tables of the documents: term (its fields) -> count

\* the two documents of TestBM25Scorer
doc1 ==
    (<<"test">> :> 1) @@ (<<"document">> :> 1) @@ (<<"test", "document">> :> 1) @@
    (<<"document", "go">> :> 1) @@ (<<"go">> :> 1) @@ (<<"programming">> :> 1) @@
    (<<"go", "programming">> :> 1)

doc2 ==
    (<<"another">> :> 1) @@ (<<"document">> :> 1) @@ (<<"programming">> :> 1) @@
    (<<"languages">> :> 1) @@ (<<"another", "document">> :> 1) @@
    (<<"document", "programming">> :> 1) @@ (<<"programming", "languages">> :> 1)

Corpus == {
    <<>>,
    (<<"x">> :> 1),
    (<<"y">> :> 2),
    (<<"x">> :> 2) @@ (<<"y">> :> 1) @@ (<<"x", "y">> :> 1),
    (<<"y">> :> 1) @@ (<<"y", "x">> :> 1),
    (<<"x", "y", "x">> :> 1)
}

\* the documents of TestBM25Scorer in the order the test processes them
TestDocs == <<doc1, doc2>>

\* the two queries of TestBM25Scorer
TestQueries == {<<"programming", "languages">>, <<"test", "document">>}

Queries == UNION {[1..n -> QueryWords] : n \in 0..MaxQueryLen}

k1 == FFin((12 * Scale) \div 10)

b == FFin((75 * Scale) \div 100)

Min(x, y) == IF x < y THEN x ELSE y

RECURSIVE TotalLength(_)
TotalLength(ds) ==
    IF ds = <<>> THEN 0
    ELSE Cardinality(DOMAIN Head(ds)) + TotalLength(Tail(ds))

\* the number of documents of ds whose table holds term
DocCount(ds, term) == Cardinality({i \in 1..Len(ds) : term \in DOMAIN ds[i]})

\* the classic BM25 weight ln((N - df + 0.5)/(df + 0.5)), without the "1 +"
IdfClassic(N, df) ==
    LET num == 2 * N - 2 * df + 1
        den == 2 * df + 1
    IN  IF num < 0 THEN FNaN
        ELSE IF num = 0 THEN FInf(-1)
        ELSE FFin(LnRatio(num, den))

\* math.Log(1 + (N-docCount+0.5)/(docCount+0.5)); the argument is
\* ((2N - 2df + 1) + (2df + 1)) / (2df + 1)
IdfValue(N, df) ==
    LET num == 2 * N - 2 * df + 1
        den == 2 * df + 1
    IN  IF num + den < 0 THEN FNaN
        ELSE IF num + den = 0 THEN FInf(-1)
        ELSE FFin(LnRatio(num + den, den))

AllTerms(ds) == UNION {DOMAIN ds[i] : i \in 1..Len(ds)}

\* calculateIDF that recomputes every term on every call
CalculateIDFRefresh(ds, old) ==
    [t \in AllTerms(ds) |-> IdfValue(Len(ds), DocCount(ds, t))]

\* calculateIDF: a term that has a value keeps it
CalculateIDF(ds, old) ==
    [t \in (DOMAIN old) \cup AllTerms(ds) |->
        IF t \in DOMAIN old THEN old[t]
        ELSE IdfValue(Len(ds), DocCount(ds, t))]

AvgDocLen(ds) == FDiv(FromInt(TotalLength(ds)), FromInt(Len(ds)))

\* strings.Fields(strings.ToLower(query))
QueryTerms(query) == [i \in 1..Len(query) |-> ToLowerWord(query[i])]

\* the n-grams of exactly n words, in start order
NGramsOfLen(words, n) ==
    [i \in 1..(Len(words) - n + 1) |-> SubSeq(words, i, i + n - 1)]

RECURSIVE NGramsFrom(_, _, _)
NGramsFrom(words, n, limit) ==
    IF n > limit THEN <<>>
    ELSE NGramsOfLen(words, n) \o NGramsFrom(words, n + 1, limit)

\* the n-gram loop without the maxNGram cap
AllQueryTermsNoCap(words) == NGramsFrom(words, 1, Len(words))

\* allQueryTerms: n = 1..min(len(queryTerms), maxNGram), i = 0..len-n
AllQueryTerms(words) == NGramsFrom(words, 1, Min(Len(words), ScorerMaxNGram))

\* one matching term's contribution
TermScore(term, termFreq, idfv, docLen, avg) ==
    LET numerator == FMul(FromInt(termFreq), FAdd(k1, FromInt(1)))
        denominator ==
            FAdd(FromInt(termFreq),
                 FMul(k1, FAdd(FSub(FromInt(1), b),
                               FDiv(FMul(b, docLen), avg))))
        termLength == FromInt(Len(term))
        lengthBoost ==
            FAdd(FromInt(1), FMul(FFin(Scale \div 2), FSub(termLength, FromInt(1))))
    IN  FMul(FDiv(FMul(idfv, numerator), denominator), lengthBoost)

\* the loop left at the first matching term
RECURSIVE ScoreLoopFirstOnly(_, _, _, _)
ScoreLoopFirstOnly(terms, doc, idfm, avg) ==
    IF terms = <<>> THEN [score |-> FFin(0), hasMatch |-> FALSE]
    ELSE LET term == Head(terms)
         IN  IF term \notin DOMAIN doc \/ term \notin DOMAIN idfm
             THEN ScoreLoopFirstOnly(Tail(terms), doc, idfm, avg)
             ELSE [score |-> TermScore(term, doc[term], idfm[term],
                                       FromInt(Cardinality(DOMAIN doc)), avg),
                   hasMatch |-> TRUE]

\* the loop over allQueryTerms: [score, hasMatch]
RECURSIVE ScoreLoop(_, _, _, _)
ScoreLoop(terms, doc, idfm, avg) ==
    IF terms = <<>> THEN [score |-> FFin(0), hasMatch |-> FALSE]
    ELSE LET term == Head(terms)
             rest == ScoreLoop(Tail(terms), doc, idfm, avg)
         IN  IF term \notin DOMAIN doc THEN rest
             ELSE IF term \notin DOMAIN idfm THEN rest
             ELSE [score |-> FAdd(TermScore(term, doc[term], idfm[term],
                                            FromInt(Cardinality(DOMAIN doc)), avg),
                                  rest.score),
                   hasMatch |-> TRUE]

\* Score, from the lower-cased fields of the query on
ScoreWords(queryTerms, doc, idfm, avg) ==
    LET r == ScoreLoop(AllQueryTerms(queryTerms), doc, idfm, avg)
    IN  IF ~r.hasMatch THEN FFin(0) ELSE r.score

ScoreOf(query, doc, idfm, avg) == ScoreWords(QueryTerms(query), doc, idfm, avg)

ScorerInit ==
    /\ docs = <<>>
    /\ avgdl = FFin(0)
    /\ idf = <<>>
    /\ lastScore = NoCall

\* the IDF update made before the document is appended
ProcessDocumentStepIdfFirst(doc) ==
    /\ docs' = Append(docs, doc)
    /\ avgdl' = AvgDocLen(docs')
    /\ idf' = CalculateIDF(docs, idf)
    /\ lastScore' = NoCall

\* ProcessDocument: the document is appended, avgdl and idf are updated
ProcessDocumentStep(doc) ==
    /\ docs' = Append(docs, doc)
    /\ avgdl' = AvgDocLen(docs')
    /\ idf' = CalculateIDF(docs', idf)
    /\ lastScore' = NoCall

ProcessDocument(doc) ==
    /\ Len(docs) < MaxDocs
    /\ ProcessDocumentStep(doc)

\* TestBM25Scorer: a new ranker processes doc1, then doc2
ProcessTestDocument ==
    /\ Len(docs) < Len(TestDocs)
    /\ docs = SubSeq(TestDocs, 1, Len(docs))
    /\ ProcessDocumentStep(TestDocs[Len(docs) + 1])

\* Score reads the ranker's state and writes none of it, so a call made right
\* after another reaches no state that a call made from the state before does
\* not reach: the guard leaves the reachable states as they are.
Score(query, doc) ==
    /\ lastScore = NoCall
    /\ lastScore' = [kind |-> "score", query |-> query, doc |-> doc,
                     score |-> ScoreOf(query, doc, idf, avgdl)]
    /\ UNCHANGED <<docs, avgdl, idf>>

InsIdle == [phase |-> "idle"]

PrsIdle == [phase |-> "idle"]

CchIdle == [phase |-> "idle"]

AnaIdle == [phase |-> "idle"]

Init ==
    /\ ScorerInit
    /\ ins = InsIdle
    /\ prs = PrsIdle
    /\ cch = CchIdle
    /\ ana = AnaIdle

Next ==
    \/ \E doc \in Corpus : ProcessDocument(doc) /\ UNCHANGED <<ins, prs, cch, ana>>
    \/ \E query \in Queries, doc \in Corpus : Score(query, doc) /\ UNCHANGED <<ins, prs, cch, ana>>
    \/ ProcessTestDocument /\ UNCHANGED <<ins, prs, cch, ana>>
    \/ \E query \in TestQueries, doc \in {doc1, doc2} :
          Score(query, doc) /\ UNCHANGED <<ins, prs, cch, ana>>

Spec == Init /\ [][Next]_vars

-----------------------------------------------------------------------------
(* claims about the ranker, checked under Spec *)

\* the n-grams the query generates: every contiguous run of its lower-cased
\* fields of length 1..min(number of fields, maxNGram)
GeneratedNGrams(query) ==
    LET w == QueryTerms(query)
    IN  {SubSeq(w, i, j) : <<i, j>> \in
            {p \in (1..Len(w)) \X (1..Len(w)) :
                /\ p[1] <= p[2]
                /\ p[2] - p[1] + 1 <= Min(Len(w), ScorerMaxNGram)}}

NoOverlap(query, doc) == GeneratedNGrams(query) \cap DOMAIN doc = {}

\* C4: whenever no n-gram generated from the query is a key of the
\* document's table, Score returns exactly 0, whatever was processed before.
C4_NoOverlapScoresZero ==
    (lastScore.kind = "score" /\ NoOverlap(lastScore.query, lastScore.doc))
        => lastScore.score = FFin(0)

\* C4 witness: a non-empty query scored against a processed, non-empty
\* document that shares no n-gram with it, and the score is 0.
C4_Witness ==
    /\ lastScore.kind = "score"
    /\ lastScore.query # <<>>
    /\ lastScore.doc # <<>>
    /\ \E i \in 1..Len(docs) : docs[i] = lastScore.doc
    /\ NoOverlap(lastScore.query, lastScore.doc)
    /\ lastScore.score = FFin(0)

\* a query term that reaches the division by avgdl
Contributes(query, doc) ==
    \E t \in GeneratedNGrams(query) : t \in DOMAIN doc /\ t \in DOMAIN idf

\* C5: every score is a finite number >= 0, and whenever a term contributes
\* the divisor avgdl is a finite number > 0.
C5_ScoreFiniteNonNegative ==
    lastScore.kind = "score" =>
        /\ IsFinite(lastScore.score)
        /\ lastScore.score.v >= 0
        /\ Contributes(lastScore.query, lastScore.doc) =>
              (IsFinite(avgdl) /\ avgdl.v > 0)

\* C5 witness: the corpus holds only documents with empty tables (avgdl is
\* zero), and a document that holds a term of the query is scored.
C5_Witness ==
    /\ lastScore.kind = "score"
    /\ Len(docs) >= 1
    /\ avgdl = FFin(0)
    /\ ~NoOverlap(lastScore.query, lastScore.doc)
    /\ lastScore.score = FFin(0)

\* C6: a step never changes, nor drops, the IDF value a term already has.
C6_IdfNeverRecomputed ==
    [][\A t \in DOMAIN idf : t \in DOMAIN idf' /\ idf'[t] = idf[t]]_vars

\* C6 witness: a term whose cached IDF was computed before a later document
\* changed the corpus size, so that it differs from the value for the
\* present corpus.
C6_Witness ==
    /\ Len(docs) >= 2
    /\ \E t \in DOMAIN idf :
          /\ t \in DOMAIN docs[1]
          /\ idf[t] = IdfValue(1, 1)
          /\ idf[t] # IdfValue(Len(docs), DocCount(docs, t))

\* C7 (as claimed): the IDF of every term equals the formula's value for the
\* documents processed so far.
C7_IdfConsistentWithCorpus ==
    \A t \in DOMAIN idf : idf[t] = IdfValue(Len(docs), DocCount(docs, t))

-----------------------------------------------------------------------------
(* pkg/markdown: Parser.InsertLink *)

MaxContentLen == 4
MaxWordLen == 2
MaxTargetLen == 1

\* the bytes of the inputs; "[" is the byte a link starts with
InsertBytes == {"a", "["}

ByteStrings(n) == UNION {[1..m -> InsertBytes] : m \in 0..n}

\* content[lo:hi] of Go, for 0 <= lo <= hi <= len(content)
Slice(content, lo, hi) == SubSeq(content, lo + 1, hi)

\* fmt.Sprintf("[%s](%s)", word, target)
LinkText(word, target) == <<"[">> \o word \o <<"]", "(">> \o target \o <<")">>

InsertError(kind) == [ok |-> FALSE, err |-> kind, content |-> <<>>]

\* InsertLink that appends content[position:] after the link
InsertLinkKeepsWord(content, word, target, position) ==
    IF position < 0 \/ position >= Len(content) THEN InsertError("range")
    ELSE IF position + Len(word) > Len(content) THEN InsertError("exceed")
    ELSE IF Slice(content, position, position + Len(word)) # word
         THEN InsertError("mismatch")
    ELSE [ok |-> TRUE, err |-> "none",
          content |-> Slice(content, 0, position) \o LinkText(word, target)
                      \o Slice(content, position, Len(content))]

\* InsertLink whose range check reads position > len(content)
InsertLinkOffByOne(content, word, target, position) ==
    IF position < 0 \/ position > Len(content) THEN InsertError("range")
    ELSE IF position + Len(word) > Len(content) THEN InsertError("exceed")
    ELSE IF Slice(content, position, position + Len(word)) # word
         THEN InsertError("mismatch")
    ELSE [ok |-> TRUE, err |-> "none",
          content |-> Slice(content, 0, position) \o LinkText(word, target)
                      \o Slice(content, position + Len(word), Len(content))]

\* InsertLink without the comparison of the bytes at position with word
InsertLinkNoVerify(content, word, target, position) ==
    IF position < 0 \/ position >= Len(content) THEN InsertError("range")
    ELSE IF position + Len(word) > Len(content) THEN InsertError("exceed")
    ELSE [ok |-> TRUE, err |-> "none",
          content |-> Slice(content, 0, position) \o LinkText(word, target)
                      \o Slice(content, position + Len(word), Len(content))]

\* InsertLink: (result, error); on an error the result is nil
InsertLink(content, word, target, position) ==
    IF position < 0 \/ position >= Len(content) THEN InsertError("range")
    ELSE IF position + Len(word) > Len(content) THEN InsertError("exceed")
    ELSE IF Slice(content, position, position + Len(word)) # word
         THEN InsertError("mismatch")
    ELSE [ok |-> TRUE, err |-> "none",
          content |-> Slice(content, 0, position) \o LinkText(word, target)
                      \o Slice(content, position + Len(word), Len(content))]

\* whether word stands at position p of content
OccursAt(content, word, p) ==
    /\ 0 <= p
    /\ p + Len(word) <= Len(content)
    /\ Slice(content, p, p + Len(word)) = word

\* the positions a caller holds after the first insertion at pos: pos itself
\* and the occurrences of word that lay after pos in the original content
StalePositions(content, word, pos) ==
    {pos} \cup {p \in (pos + 1)..Len(content) : OccursAt(content, word, p)}

InsertInit ==
    \E c \in ByteStrings(MaxContentLen) :
        ins = [phase |-> "ready", content |-> c]

\* a first call on the content
InsertFirst(word, target, position) ==
    /\ ins.phase = "ready"
    /\ ins' = [phase |-> "first", content |-> ins.content, word |-> word,
               target |-> target, position |-> position,
               first |-> InsertLink(ins.content, word, target, position)]

\* a second call, on the content the first call returned, with a position
\* that was computed against the original content
InsertAgain(position) ==
    /\ ins.phase = "first"
    /\ ins.first.ok
    /\ position \in StalePositions(ins.content, ins.word, ins.position)
    /\ ins' = [phase |-> "again", content |-> ins.content, word |-> ins.word,
               target |-> ins.target, position |-> ins.position,
               first |-> ins.first, position2 |-> position,
               second |-> InsertLink(ins.first.content, ins.word, ins.target,
                                     position)]

InitInsert ==
    /\ InsertInit
    /\ docs = <<>>
    /\ avgdl = FFin(0)
    /\ idf = <<>>
    /\ lastScore = NoCall
    /\ prs = PrsIdle
    /\ cch = CchIdle
    /\ ana = AnaIdle

NextInsert ==
    \/ \E word \in ByteStrings(MaxWordLen), target \in ByteStrings(MaxTargetLen),
          position \in -1..(MaxContentLen + 1) :
            InsertFirst(word, target, position)
            /\ UNCHANGED <<docs, avgdl, idf, lastScore, prs, cch, ana>>
    \/ \E position \in 0..MaxContentLen :
            InsertAgain(position)
            /\ UNCHANGED <<docs, avgdl, idf, lastScore, prs, cch, ana>>

SpecInsert == InitInsert /\ [][NextInsert]_vars

-----------------------------------------------------------------------------
(* claims about InsertLink, checked under SpecInsert *)

Called == ins.phase \in {"first", "again"}

\* C1: when position is in range and the bytes at position are the term, the
\* call succeeds and returns content[:position] ++ "[term](targetRef)" ++
\* content[position+len(term):].
C1_InsertLinkSplices ==
    (Called /\ ins.position < Len(ins.content)
            /\ OccursAt(ins.content, ins.word, ins.position))
        => /\ ins.first.ok
           /\ ins.first.content =
                Slice(ins.content, 0, ins.position)
                \o <<"[">> \o ins.word \o <<"]", "(">> \o ins.target \o <<")">>
                \o Slice(ins.content, ins.position + Len(ins.word), Len(ins.content))

\* C1 witness: a successful call with bytes before and after a non-empty term.
C1_Witness ==
    /\ ins.phase = "first"
    /\ ins.first.ok
    /\ ins.word # <<>>
    /\ ins.position > 0
    /\ ins.position + Len(ins.word) < Len(ins.content)

\* C2: a position out of bounds, a term that would pass the end of the
\* content, or bytes at position that differ from the term give an error and
\* no content.
C2_InsertLinkRejects ==
    (Called /\ (\/ ins.position < 0
                \/ ins.position >= Len(ins.content)
                \/ ins.position + Len(ins.word) > Len(ins.content)
                \/ ~OccursAt(ins.content, ins.word, ins.position)))
        => /\ ~ins.first.ok
           /\ ins.first.err # "none"
           /\ ins.first.content = <<>>

\* C2 witness: a position in range whose bytes differ from the term, refused.
C2_Witness ==
    /\ ins.phase = "first"
    /\ ins.position >= 0
    /\ ins.position + Len(ins.word) <= Len(ins.content)
    /\ ~OccursAt(ins.content, ins.word, ins.position)
    /\ ~ins.first.ok

\* the span of the result of the first call where the link stands
LinkSpan ==
    Slice(ins.first.content, ins.position,
          ins.position + Len(ins.word) + Len(ins.target) + 4)

\* C3 (as claimed): after a successful insertion the span at pos is
\* "[term](ref)", and a second call with a position computed against the
\* original content (pos, or a later occurrence) fails.  Stated for the
\* plainest case of the claim: a non-empty term without a "[" byte, and the
\* position of a later occurrence that does not overlap the first.
C3_StaleAlwaysFails ==
    (/\ ins.phase = "again"
     /\ ins.word # <<>>
     /\ \A i \in 1..Len(ins.word) : ins.word[i] # "["
     /\ ins.position2 >= ins.position + Len(ins.word))
        => /\ LinkSpan = LinkText(ins.word, ins.target)
           /\ ~ins.second.ok

\* C3 (amended): the span at pos is "[term](ref)"; a second call with a stale
\* position succeeds exactly when the bytes of the new content at that
\* position are the term, and returns no content otherwise; at pos itself it
\* fails whenever the term holds a byte other than "[".
C3_StaleFailsUnlessBytesMatch ==
    ins.phase = "again" =>
        /\ LinkSpan = LinkText(ins.word, ins.target)
        /\ ins.second.ok <=> OccursAt(ins.first.content, ins.word, ins.position2)
        /\ ~ins.second.ok => ins.second.content = <<>>
        /\ (ins.position2 = ins.position
            /\ \E i \in 1..Len(ins.word) : ins.word[i] # "[")
              => ~ins.second.ok

\* C3 witness: the position of a later occurrence of a non-empty term, stale
\* after the insertion, is refused.
C3_Witness ==
    /\ ins.phase = "again"
    /\ ins.word # <<>>
    /\ ins.position2 > ins.position
    /\ ~ins.second.ok
    /\ ins.second.err = "mismatch"

-----------------------------------------------------------------------------
(* pkg/markdown: the tokenizer.  Content is a byte string. *)

MaxBodyLines == 2

\* sort.Slice sorts at most this many elements by insertion (stably); above
\* it the order of equal elements is not specified
maxInsertion == 12

functionWords == {
    <<"a">>, <<"a", "n">>, <<"t", "h", "e">>, <<"a", "n", "d">>,
    <<"b", "u", "t">>, <<"o", "r">>, <<"n", "o", "r">>, <<"f", "o", "r">>,
    <<"y", "e", "t">>, <<"s", "o">>, <<"b", "e", "c", "a", "u", "s", "e">>,
    <<"i", "f">>, <<"u", "n", "l", "e", "s", "s">>,
    <<"w", "h", "i", "l", "e">>, <<"w", "h", "e", "r", "e">>,
    <<"w", "h", "e", "n">>, <<"w", "h", "e", "t", "h", "e", "r">>, <<"i">>,
    <<"y", "o", "u">>, <<"h", "e">>, <<"s", "h", "e">>, <<"i", "t">>,
    <<"w", "e">>, <<"t", "h", "e", "y">>, <<"m", "e">>, <<"h", "i", "m">>,
    <<"h", "e", "r">>, <<"u", "s">>, <<"t", "h", "e", "m">>, <<"m", "y">>,
    <<"y", "o", "u", "r">>, <<"h", "i", "s">>, <<"i", "t", "s">>,
    <<"o", "u", "r">>, <<"t", "h", "e", "i", "r">>, <<"m", "i", "n", "e">>,
    <<"y", "o", "u", "r", "s">>, <<"h", "e", "r", "s">>,
    <<"o", "u", "r", "s">>, <<"t", "h", "e", "i", "r", "s">>,
    <<"t", "h", "i", "s">>, <<"t", "h", "a", "t">>,
    <<"t", "h", "e", "s", "e">>, <<"t", "h", "o", "s", "e">>,
    <<"w", "h", "o">>, <<"w", "h", "o", "m">>, <<"w", "h", "o", "s", "e">>,
    <<"w", "h", "i", "c", "h">>, <<"w", "h", "a", "t">>, <<"a", "m">>,
    <<"i", "s">>, <<"a", "r", "e">>, <<"w", "a", "s">>,
    <<"w", "e", "r", "e">>, <<"b", "e">>, <<"b", "e", "e", "n">>,
    <<"b", "e", "i", "n", "g">>, <<"h", "a", "v", "e">>, <<"h", "a", "s">>,
    <<"h", "a", "d">>, <<"h", "a", "v", "i", "n", "g">>, <<"d", "o">>,
    <<"d", "o", "e", "s">>, <<"d", "i", "d">>, <<"d", "o", "i", "n", "g">>,
    <<"w", "i", "l", "l">>, <<"w", "o", "u", "l", "d">>,
    <<"s", "h", "a", "l", "l">>, <<"s", "h", "o", "u", "l", "d">>,
    <<"m", "a", "y">>, <<"m", "i", "g", "h", "t">>, <<"m", "u", "s", "t">>,
    <<"c", "a", "n">>, <<"c", "o", "u", "l", "d">>,
    <<"t", "h", "e", "r", "e">>, <<"h", "e", "r", "e">>, <<"n", "o", "w">>,
    <<"t", "h", "e", "n">>, <<"t", "o", "d", "a", "y">>,
    <<"t", "o", "m", "o", "r", "r", "o", "w">>,
    <<"y", "e", "s", "t", "e", "r", "d", "a", "y">>, <<"n", "o", "t">>,
    <<"n", "o">>, <<"y", "e", "s">>, <<"o", "k", "a", "y">>, <<"o", "h">>,
    <<"w", "e", "l", "l">>, <<"j", "u", "s", "t">>, <<"v", "e", "r", "y">>,
    <<"m", "u", "c", "h">>, <<"m", "a", "n", "y">>, <<"m", "o", "r", "e">>,
    <<"m", "o", "s", "t">>, <<"s", "o", "m", "e">>, <<"a", "n", "y">>,
    <<"a", "l", "l">>, <<"b", "o", "t", "h">>, <<"e", "a", "c", "h">>,
    <<"f", "e", "w">>, <<"s", "e", "v", "e", "r", "a", "l">>,
    <<"t", "o", "o">>, <<"r", "a", "t", "h", "e", "r">>,
    <<"q", "u", "i", "t", "e">>
}

\* util.IsSpace of goldmark, and unicode.IsSpace on an ASCII byte; the
\* vertical tab (0x0B) is written "\\v": the language has no string for it
IsSpace(c) == c \in {" ", "\n", "\t", "\r", "\f", "\\v"}

\* unicode.IsSpace on the rune that strings.Fields decodes at byte i of s: an
\* ASCII space, or a byte of the UTF-8 encoding of a rune of the table
\* unicode.White_Space: U+0085, U+00A0, U+1680, U+2000..U+200A, U+2028,
\* U+2029, U+202F, U+205F, U+3000.  A byte b above 0x7F is written "\\xHH";
\* decoding starts anew at every lead byte, so a byte belongs to a space
\* exactly when one of these encodings stands around it; a lead or
\* continuation byte on its own decodes to utf8.RuneError, which is no space.
IsSpaceAt(s, i) ==
    LET tails == {"\\x80", "\\x81", "\\x82", "\\x83", "\\x84", "\\x85", "\\x86",
                  "\\x87", "\\x88", "\\x89", "\\x8A", "\\xA8", "\\xA9", "\\xAF"}
        spaces == {<<"\\xC2", "\\x85">>, <<"\\xC2", "\\xA0">>,
                   <<"\\xE1", "\\x9A", "\\x80">>, <<"\\xE2", "\\x81", "\\x9F">>,
                   <<"\\xE3", "\\x80", "\\x80">>}
                  \cup {<<"\\xE2", "\\x80", x>> : x \in tails}
        \* the bytes these encodings are made of
        bytes == tails \cup {"\\xC2", "\\xA0", "\\xE1", "\\x9A", "\\xE2", "\\x9F", "\\xE3"}
    IN  \/ IsSpace(s[i])
        \/ /\ s[i] \in bytes
           /\ \E r \in spaces : \E k \in 1..Len(r) :
                 /\ i - k >= 0
                 /\ i - k + Len(r) <= Len(s)
                 /\ SubSeq(s, i - k + 1, i - k + Len(r)) = r

\* strings.Fields: the maximal runs of non-space bytes.  FieldStarts are the
\* indices at which a run starts, FieldStop the index of the last byte of the
\* run that starts at i.
FieldStarts(s) ==
    {i \in 1..Len(s) : ~IsSpaceAt(s, i) /\ (i = 1 \/ IsSpaceAt(s, i - 1))}

FieldStop(s, i) ==
    LET stops == {e \in i..Len(s) : e = Len(s) \/ IsSpaceAt(s, e + 1)}
    IN  CHOOSE e \in stops : \A f \in stops : e <= f

Fields(s) ==
    LET starts == FieldStarts(s)
        nth(k) == CHOOSE i \in starts : Cardinality({j \in starts : j < i}) = k - 1
    IN  [k \in 1..Cardinality(starts) |-> SubSeq(s, nth(k), FieldStop(s, nth(k)))]

\* strings.Join(ws, sep)
RECURSIVE Join(_, _)
Join(ws, sep) ==
    IF ws = <<>> THEN <<>>
    ELSE IF Len(ws) = 1 THEN ws[1]
    ELSE ws[1] \o sep \o Join(Tail(ws), sep)

\* the cutset of strings.Trim(word, ".,!?()[]{}\"'")
TrimCutset == {".", ",", "!", "?", "(", ")", "[", "]", "{", "}", "\"", "'"}

RECURSIVE TrimLeft(_)
TrimLeft(w) ==
    IF w # <<>> /\ Head(w) \in TrimCutset THEN TrimLeft(Tail(w)) ELSE w

RECURSIVE TrimRight(_)
TrimRight(w) ==
    IF w # <<>> /\ w[Len(w)] \in TrimCutset
    THEN TrimRight(SubSeq(w, 1, Len(w) - 1)) ELSE w

Trim(w) == TrimRight(TrimLeft(w))

ToLowerByte(c) ==
    LET uppers == <<"A", "B", "C", "D", "E", "F", "G", "H", "I", "J", "K", "L", "M",
                    "N", "O", "P", "Q", "R", "S", "T", "U", "V", "W", "X", "Y", "Z">>
        lowers == <<"a", "b", "c", "d", "e", "f", "g", "h", "i", "j", "k", "l", "m",
                    "n", "o", "p", "q", "r", "s", "t", "u", "v", "w", "x", "y", "z">>
    IN  IF \E i \in 1..Len(uppers) : uppers[i] = c
        THEN lowers[CHOOSE i \in 1..Len(uppers) : uppers[i] = c]
        ELSE c

\* strings.ToLower, on valid UTF-8 whose letters are ASCII
ToLower(w) == [i \in 1..Len(w) |-> ToLowerByte(w[i])]

Digits == {"0", "1", "2", "3", "4", "5", "6", "7", "8", "9"}

\* strings.IndexFunc(word, not a digit) == -1
IsNumeric(w) == \A i \in 1..Len(w) : w[i] \in Digits

\* whether sep stands at offset i (from 0) of s
HasPrefixAt(s, i, sep) ==
    /\ i + Len(sep) <= Len(s)
    /\ SubSeq(s, i + 1, i + Len(sep)) = sep

\* bytes.Index(s[from:], sep), plus from when found; -1 when not
IndexFrom(s, from, sep) ==
    LET hits == {i \in from..Len(s) : HasPrefixAt(s, i, sep)}
    IN  IF hits = {} THEN -1
        ELSE CHOOSE i \in hits : \A j \in hits : i <= j

\* s[from:] of Go
From(s, from) == SubSeq(s, from + 1, Len(s))

Dashes == <<"-", "-", "-">>

Pluses == <<"+", "+", "+">>

Newline == <<"\n">>

\* skipFrontmatter: the content without front matter, and the bytes skipped
skipFrontmatter(content) ==
    LET keep == [content |-> content, skipped |-> 0]
    IN
    IF Len(content) > 3 /\ (HasPrefixAt(content, 0, Dashes) \/ HasPrefixAt(content, 0, Pluses))
    THEN LET rest0 == From(content, 3)
             nl == IndexFrom(rest0, 0, Newline)
         IN  IF nl # -1
             THEN LET rest == From(rest0, nl + 1)
                      delimiter == IF HasPrefixAt(content, 0, Dashes) THEN Dashes ELSE Pluses
                      idx == IndexFrom(rest, 0, delimiter)
                  IN  IF idx # -1
                      THEN LET closeRest == From(rest, idx + 3)
                               nl2 == IndexFrom(closeRest, 0, Newline)
                           IN  IF nl2 # -1
                               THEN [content |-> From(closeRest, nl2 + 1),
                                     skipped |-> Len(content) - Len(From(closeRest, nl2 + 1))]
                               ELSE keep
                      ELSE keep
             ELSE keep
    ELSE keep

contextSize == 50

Ellipsis == <<".", ".", ".">>

Max(x, y) == IF x > y THEN x ELSE y

\* extractContext: the window around content[position : position+wordLen]
extractContext(content, position, wordLen) ==
    LET start == Max(position - contextSize, 0)
        end == Min(position + wordLen + contextSize, Len(content))
        window == SubSeq(content, start + 1, end)
        spaced == [i \in 1..Len(window) |-> IF window[i] = "\n" THEN " " ELSE window[i]]
        context == Join(Fields(spaced), <<" ">>)
    IN  (IF start > 0 THEN Ellipsis ELSE <<>>)
        \o context
        \o (IF end < Len(content) THEN Ellipsis ELSE <<>>)

\* the loop over the words of a text node: the significant words (sig), their
\* offsets in the node's text (at) and the search cursor (pos)
RECURSIVE SignificantLoop(_, _, _, _)
SignificantLoop(textContent, words, i, st) ==
    IF i > Len(words) THEN st
    ELSE LET word == words[i]
             normalized == ToLower(Trim(word))
         IN  IF \/ IsNumeric(normalized)
                \/ normalized \in functionWords
                \/ Len(normalized) <= 2
             THEN SignificantLoop(textContent, words, i + 1, st)
             ELSE LET wordPos == IndexFrom(textContent, st.pos, word)
                  IN  IF wordPos # -1
                      THEN SignificantLoop(textContent, words, i + 1,
                               [sig |-> Append(st.sig, normalized),
                                at |-> Append(st.at, wordPos),
                                pos |-> wordPos + Len(word)])
                      ELSE SignificantLoop(textContent, words, i + 1, st)

Occurrence(word, position, context) ==
    [Word |-> word, Position |-> position, Context |-> context]

\* the n-grams of exactly n significant words, in start order
NGramOccurrences(content, words, st, n, currentPosition, frontmatterOffset) ==
    [i \in 1..(Len(st.sig) - n + 1) |->
        LET startPos == st.at[i]
            endWordIdx == i + n - 1
            endPos == st.at[endWordIdx] + Len(words[endWordIdx])
        IN  Occurrence(Join(SubSeq(st.sig, i, i + n - 1), <<" ">>),
                       frontmatterOffset + currentPosition + startPos,
                       extractContext(content, currentPosition + startPos,
                                      endPos - startPos))]

RECURSIVE NGramLoop(_, _, _, _, _, _, _)
NGramLoop(content, words, st, n, maxN, currentPosition, frontmatterOffset) ==
    IF n > maxN \/ n > Len(st.sig) THEN <<>>
    ELSE NGramOccurrences(content, words, st, n, currentPosition, frontmatterOffset)
         \o NGramLoop(content, words, st, n + 1, maxN, currentPosition, frontmatterOffset)

\* SelectSeq over indices: the unigram occurrences of the words long enough
RECURSIVE UnigramLoop(_, _, _, _, _, _, _)
UnigramLoop(content, words, st, i, minWordLen, currentPosition, frontmatterOffset) ==
    IF i > Len(st.sig) THEN <<>>
    ELSE (IF Len(st.sig[i]) >= minWordLen
          THEN <<Occurrence(st.sig[i],
                            frontmatterOffset + currentPosition + st.at[i],
                            extractContext(content, currentPosition + st.at[i],
                                           Len(words[i])))>>
          ELSE <<>>)
         \o UnigramLoop(content, words, st, i + 1, minWordLen, currentPosition,
                        frontmatterOffset)

\* processTextNodeWithPosition: the occurrences one text node adds
processTextNodeWithPosition(textContent, content, currentPosition, frontmatterOffset, minWordLen, minNGram, maxNGram) ==
    LET words == Fields(textContent)
        st == SignificantLoop(textContent, words, 1,
                              [sig |-> <<>>, at |-> <<>>, pos |-> 0])
    IN  IF Len(words) = 0 THEN <<>>
        ELSE IF Len(st.sig) = 0 THEN <<>>
        ELSE IF minNGram = 1
             THEN UnigramLoop(content, words, st, 1, minWordLen, currentPosition,
                              frontmatterOffset)
        ELSE IF Len(st.sig) >= minNGram
             THEN NGramLoop(content, words, st, minNGram, maxNGram,
                            currentPosition, frontmatterOffset)
        ELSE <<>>

-----------------------------------------------------------------------------
(* A content is a sequence of bytes, each written as a string of one        *)
(* character.  Three kinds of byte are written otherwise: the backtick      *)
(* (0x60) is written "~" throughout, in the contents and in the             *)
(* definitions that look for it (code spans, code fences), so a tilde       *)
(* itself is no byte of a content; the vertical tab is written "\\v"; a      *)
(* byte above 0x7F is written "\\xHH".                                       *)
(*                                                                          *)
(* The tree goldmark's parser returns (p.md.Parser().Parse), for contents   *)
(* of ASCII bytes (and of the bytes of Unicode spaces, which are plain      *)
(* text to goldmark) made of these blocks: paragraphs, ATX and setext       *)
(* headings, thematic breaks, indented code blocks and code blocks fenced   *)
(* by backticks; and, inside paragraphs and headings, of text, code spans,  *)
(* backslash escapes and the bytes "!", "]" and "<" where they start no     *)
(* image, link, autolink or HTML tag.  As in goldmark, the text of a code   *)
(* span is made of Text children of the CodeSpan node, and a code block     *)
(* keeps its lines and has no children.  Outside the modelled subset: lists *)
(* and block quotes, HTML blocks, link reference definitions, and the       *)
(* bytes "[", "*" and "_", which open link labels and emphasis delimiters.  *)

Node(kind, start, stop, children) ==
    [kind |-> kind, start |-> start, stop |-> stop, children |-> children]

TextNode(start, stop) == Node("Text", start, stop, <<>>)

\* the lines of content as segments [start, stop), the newline left out
RECURSIVE LinesFrom(_, _)
LinesFrom(content, from) ==
    IF from >= Len(content) THEN <<>>
    ELSE LET nl == IndexFrom(content, from, Newline)
         IN  IF nl = -1 THEN <<[start |-> from, stop |-> Len(content)]>>
             ELSE <<[start |-> from, stop |-> nl]>> \o LinesFrom(content, nl + 1)

\* how many bytes c stand in a row at offset from of s[:stop]
Run(s, from, stop, c) ==
    LET ends == {e \in from..stop : \A i \in (from + 1)..e : s[i] = c}
    IN  (CHOOSE e \in ends : \A f \in ends : f <= e) - from

\* Segment.TrimRightSpace: the stop of [start, stop) without trailing spaces
TrimRightSpace(content, start, stop) ==
    LET ends == {e \in start..stop : \A i \in (e + 1)..stop : IsSpace(content[i])}
    IN  CHOOSE e \in ends : \A f \in ends : e <= f

\* Segment.TrimLeftSpace: the start of [start, stop) without leading spaces
TrimLeftSpace(content, start, stop) ==
    LET starts == {e \in start..stop : \A i \in (start + 1)..e : IsSpace(content[i])}
    IN  CHOOSE e \in starts : \A f \in starts : f <= e

\* ast.MergeOrAppendTextSegment: the segment extends a Text node that ends
\* where it starts, or becomes a Text node of its own
MergeOrAppendTextSegment(kids, start, stop) ==
    IF kids # <<>> /\ kids[Len(kids)].kind = "Text" /\ kids[Len(kids)].stop = start
    THEN [kids EXCEPT ![Len(kids)].stop = stop]
    ELSE Append(kids, TextNode(start, stop))

\* codeSpanParser.Parse, the search of the closing run: the first run of
\* exactly n backticks at or after offset from of line j, in the lines of
\* the block; <<k, c>> is its line and offset, <<>> when there is none
CodeSpanClose(content, segs, j, from, n) ==
    LET lo(k) == IF k = j THEN from ELSE segs[k].start
        hits == {h \in UNION {{<<k, c>> : c \in lo(k)..(segs[k].stop - 1)} : k \in j..Len(segs)} :
                    /\ content[h[2] + 1] = "~"
                    /\ (h[2] = lo(h[1]) \/ content[h[2]] # "~")
                    /\ Run(content, h[2], segs[h[1]].stop, "~") = n}
    IN  IF hits = {} THEN <<>>
        ELSE CHOOSE h \in hits :
                 \A g \in hits : h[1] < g[1] \/ (h[1] = g[1] /\ h[2] <= g[2])

\* codeSpanParser.Parse, the node: a raw Text child per line from the opener
\* at line j to the closing run at offset c of line k, the first and the last
\* byte dropped when both are a space or a newline and the span is not blank
CodeSpan(content, segs, j, from, k, c) ==
    LET a(i) == IF i = j THEN from ELSE segs[i].start
        z(i) == IF i = k THEN c ELSE segs[i].stop + 1
        held == {i \in j..k : i < k \/ a(i) < z(i)}
        first == CHOOSE i \in held : \A h \in held : i <= h
        last == CHOOSE i \in held : \A h \in held : h <= i
        blank == \A i \in held : \A x \in (a(i) + 1)..z(i) : IsSpace(content[x])
        trimmed == /\ ~blank
                   /\ content[a(first) + 1] \in {" ", "\n"}
                   /\ content[z(last)] \in {" ", "\n"}
        nth(m) == CHOOSE i \in held : Cardinality({h \in held : h < i}) = m - 1
        child(i) == TextNode(IF trimmed /\ i = first THEN a(i) + 1 ELSE a(i),
                             IF trimmed /\ i = last THEN z(i) - 1 ELSE z(i))
    IN  Node("CodeSpan", from, c,
             IF held = {} THEN <<>>
             ELSE [m \in 1..Cardinality(held) |-> child(nth(m))])

\* parseBlock: the inline nodes of the lines segs of a block, from line j on.
\* peek is where the line was peeked, sp where the pending text starts, cur
\* where the scan stands, esc the escaped flag there (it is set once per
\* block and lives on over line ends and parsed nodes), kids the nodes so far
RECURSIVE InlineLoop(_, _, _, _, _, _, _, _)
InlineLoop(content, segs, j, peek, sp, cur, esc, kids) ==
    IF j > Len(segs) THEN kids
    ELSE LET seg == segs[j]
             last == j = Len(segs)
             len == seg.stop - peek
             cr == IF len >= 1 /\ content[seg.stop] = "\r" THEN 1 ELSE 0
             \* a backslash before the newline, or before a carriage return
             \* and the newline: a hard line break, the text ends before it
             hard == /\ ~last
                     /\ len - cr >= 1
                     /\ content[seg.stop - cr] = "\\"
                     /\ (len - cr >= 2 => content[seg.stop - cr - 1] # "\\")
             \* two spaces before the newline, or before a carriage return
             \* and the newline: a hard line break, the spaces are not scanned
             spaces == /\ ~last
                       /\ ~hard
                       /\ len - cr >= 2
                       /\ content[seg.stop - cr] = " "
                       /\ content[seg.stop - cr - 1] = " "
             limit == IF hard THEN seg.stop - cr - 1
                      ELSE IF spaces THEN seg.stop - cr - 2
                      ELSE seg.stop
             \* the escaped flag at offset t: a backslash met when it is
             \* unset sets it, the next byte resets it.  So it is set after
             \* an odd run of backslashes, the first of them not counted when
             \* the run starts at cur with the flag set
             escaped(t) ==
                 IF t = cur THEN esc
                 ELSE IF content[t] # "\\" THEN FALSE
                 ELSE LET r == Run([i \in 1..t |-> content[t + 1 - i]], 0, t - cur, "\\")
                      IN  IF esc /\ r = t - cur THEN r % 2 = 0 ELSE r % 2 = 1
             \* the bytes the inline parsers are registered for; the first
             \* byte of the peeked line is offered to them escaped or not
             triggers == {t \in cur..(limit - 1) :
                             /\ content[t + 1] \in {"~", "!", "]", "<"}
                             /\ (t = peek \/ ~escaped(t))}
         IN  IF triggers = {}
             THEN LET stop == IF hard THEN limit
                              ELSE TrimRightSpace(content, sp, limit)
                      out == IF last /\ sp >= seg.stop THEN kids
                             ELSE Append(kids, TextNode(sp, stop))
                      next == IF last THEN 0 ELSE segs[j + 1].start
                      flag == escaped(limit)
                  IN  InlineLoop(content, segs, j + 1, next, next, next, flag, out)
             ELSE LET t == CHOOSE x \in triggers : \A y \in triggers : x <= y
                      flushed == IF sp < t THEN MergeOrAppendTextSegment(kids, sp, t)
                                 ELSE kids
                  IN  IF content[t + 1] = "~"
                      THEN LET n == Run(content, t, seg.stop, "~")
                               close == CodeSpanClose(content, segs, j, t + n, n)
                           IN  IF close = <<>>
                               THEN InlineLoop(content, segs, j, t + n, t + n, t + n,
                                               escaped(t),
                                               Append(flushed, TextNode(t, t + n)))
                               ELSE InlineLoop(content, segs, close[1],
                                               close[2] + n, close[2] + n, close[2] + n,
                                               escaped(t),
                                               Append(flushed,
                                                      CodeSpan(content, segs, j, t + n,
                                                               close[1], close[2])))
                      ELSE InlineLoop(content, segs, j, peek, t, t + 1, FALSE, flushed)

\* the inline nodes of the lines of a paragraph or a heading
InlineLines(content, segs) ==
    IF segs = <<>> THEN <<>>
    ELSE InlineLoop(content, segs, 1, segs[1].start, segs[1].start, segs[1].start,
                    FALSE, <<>>)

\* the inline nodes of the one segment [start, stop)
Inline(content, start, stop) ==
    IF start >= stop THEN <<>>
    ELSE InlineLines(content, <<[start |-> start, stop |-> stop]>>)

IsBlank(content, line) ==
    \A i \in (line.start + 1)..line.stop : IsSpace(content[i])

\* util.IndentWidth: the columns of the spaces and tabs a line starts with, a
\* tab reaching the next multiple of 4.  A width of at most 3 is made of
\* spaces only, and is then the byte offset of what follows as well.
Indent(text) ==
    LET ends == {e \in 0..Len(text) : \A i \in 1..e : text[i] \in {" ", "\t"}}
        pos == CHOOSE e \in ends : \A f \in ends : f <= e
        width[i \in 0..pos] ==
            IF i = 0 THEN 0
            ELSE IF text[i] = " " THEN width[i - 1] + 1
            ELSE width[i - 1] + 4 - (width[i - 1] % 4)
    IN  width[pos]

\* the line without the spaces it starts with and the white space it ends with
Stripped(text) ==
    SubSeq(text, Run(text, 0, Len(text), " ") + 1, TrimRightSpace(text, 0, Len(text)))

\* isThematicBreak: three or more "-", "_" or "*", white space between them
IsThematicBreak(text) ==
    LET rest == Stripped(text)
        marks == {i \in 1..Len(rest) : ~IsSpace(rest[i])}
    IN  /\ Indent(text) <= 3
        /\ Cardinality(marks) >= 3
        /\ \E c \in {"-", "_", "*"} : \A i \in marks : rest[i] = c

\* matchesSetextHeadingBar: a run of "=" or of "-", white space after it
IsSetextBar(text) ==
    LET rest == Stripped(text)
    IN  /\ Indent(text) <= 3
        /\ rest # <<>>
        /\ \E c \in {"=", "-"} : \A i \in 1..Len(rest) : rest[i] = c

\* fencedCodeBlockParser.Open: the length of the run of backticks that opens
\* a fenced code block, no backtick after it; 0 when the line opens none
FenceLength(text) ==
    LET k == Indent(text)
        n == IF k <= 3 THEN Run(text, k, Len(text), "~") ELSE 0
    IN  IF n >= 3 /\ \A i \in (k + n + 1)..Len(text) : text[i] # "~" THEN n ELSE 0

\* fencedCodeBlockParser.Continue: the line closes a fence of n backticks
IsFenceClose(text, n) ==
    LET k == Indent(text)
        m == IF k <= 3 THEN Run(text, k, Len(text), "~") ELSE 0
    IN  m >= n /\ \A i \in (k + m + 1)..Len(text) : IsSpace(text[i])

\* atxHeadingParser.Open: whether the line is an ATX heading, and the segment
\* [start, stop) of its text, offsets in the line; start = stop when empty
AtxHeading(text) ==
    LET k == Indent(text)
        level == IF k <= 3 THEN Run(text, k, Len(text), "#") ELSE 0
        i == k + level
        ok == level \in 1..6 /\ (i = Len(text) \/ IsSpace(text[i + 1]))
        start == TrimLeftSpace(text, i, Len(text))
        end == TrimRightSpace(text, 0, Len(text))
        \* the closing run of "#" counts when a space stands before it
        hashes == IF end > start
                  THEN Run([x \in 1..end |-> text[end + 1 - x]], 0, end - start, "#")
                  ELSE 0
        stop == IF end <= start THEN start
                ELSE IF hashes > 0 /\ IsSpace(text[end - hashes]) THEN end - hashes
                ELSE end
    IN  IF ok THEN [ok |-> TRUE, start |-> start, stop |-> stop]
        ELSE [ok |-> FALSE, start |-> 0, stop |-> 0]

\* the block nodes of lines[i..]; st holds the open block: mode "none", "para"
\* (segs: its lines so far), "code" (an indented code block) or "fence" (n:
\* the length of the opening run, from: where the code starts)
RECURSIVE Blocks(_, _, _, _)
Blocks(content, lines, i, st) ==
    LET leaf(kind) == Node(kind, 0, 0, <<>>)
        \* paragraphParser: the lines lose the white space they start with,
        \* the last line the white space it ends with
        trimmed == [j \in 1..Len(st.segs) |->
                       [start |-> TrimLeftSpace(content, st.segs[j].start, st.segs[j].stop),
                        stop |-> IF j = Len(st.segs)
                                 THEN TrimRightSpace(content, st.segs[j].start,
                                                     st.segs[j].stop)
                                 ELSE st.segs[j].stop]]
        block(kind) == Node(kind, 0, 0, InlineLines(content, trimmed))
        closed == IF st.mode = "para" THEN <<block("Paragraph")>>
                  ELSE IF st.mode = "code" THEN <<leaf("CodeBlock")>>
                  ELSE <<>>
        none == [mode |-> "none", segs |-> <<>>, n |-> 0, from |-> 0]
    IN
    IF i > Len(lines)
    THEN IF st.mode = "fence"
         THEN <<Node("FencedCodeBlock", Min(st.from, Len(content)), Len(content), <<>>)>>
         ELSE closed
    ELSE LET line == lines[i]
             text == SubSeq(content, line.start + 1, line.stop)
             atx == AtxHeading(text)
             \* the byte after the spaces and tabs the line starts with: the
             \* block parsers registered for it are the ones offered the line
             pos == Cardinality({e \in 1..Len(text) :
                                    \A x \in 1..e : text[x] \in {" ", "\t"}})
             trigger == IF pos < Len(text) THEN text[pos + 1] ELSE ""
         IN  IF st.mode = "fence"
             THEN IF IsFenceClose(text, st.n)
                  THEN <<Node("FencedCodeBlock", st.from, line.start, <<>>)>>
                       \o Blocks(content, lines, i + 1, none)
                  ELSE Blocks(content, lines, i + 1, st)
             ELSE IF st.mode = "code" /\ (IsBlank(content, line) \/ Indent(text) >= 4)
             THEN Blocks(content, lines, i + 1, st)
             ELSE IF IsBlank(content, line)
             THEN closed \o Blocks(content, lines, i + 1, none)
             ELSE IF st.mode = "para" /\ trigger \in {"=", "-"} /\ IsSetextBar(text)
             THEN <<block("Heading")>> \o Blocks(content, lines, i + 1, none)
             ELSE IF st.mode # "para" /\ Indent(text) >= 4
             THEN closed \o Blocks(content, lines, i + 1, [none EXCEPT !.mode = "code"])
             ELSE IF trigger \in {"-", "_", "*"} /\ IsThematicBreak(text)
             THEN closed \o <<leaf("ThematicBreak")>>
                  \o Blocks(content, lines, i + 1, none)
             ELSE IF trigger = "#" /\ atx.ok
             THEN closed
                  \o <<Node("Heading", 0, 0,
                            Inline(content, line.start + atx.start, line.start + atx.stop))>>
                  \o Blocks(content, lines, i + 1, none)
             ELSE IF trigger = "~" /\ FenceLength(text) > 0
             THEN closed \o Blocks(content, lines, i + 1,
                                   [none EXCEPT !.mode = "fence",
                                                !.n = FenceLength(text),
                                                !.from = line.stop + 1])
             ELSE (IF st.mode = "para" THEN <<>> ELSE closed)
                  \o Blocks(content, lines, i + 1,
                         [none EXCEPT !.mode = "para",
                                      !.segs = IF st.mode = "para"
                                               THEN Append(st.segs, line)
                                               ELSE <<line>>])

GoldmarkParse(content) ==
    Node("Document", 0, 0,
         Blocks(content, LinesFrom(content, 0), 1,
                [mode |-> "none", segs |-> <<>>, n |-> 0, from |-> 0]))

\* walkNodesWithPosition: a Text node is processed, then every child is
\* walked, whatever the node's kind
RECURSIVE walkNodesWithPosition(_, _, _, _, _, _)
RECURSIVE WalkChildren(_, _, _, _, _, _)
walkNodesWithPosition(n, content, frontmatterOffset, minWordLen, minNGram, maxNGram) ==
    (IF n.kind = "Text"
     THEN processTextNodeWithPosition(SubSeq(content, n.start + 1, n.stop), content,
                                      n.start, frontmatterOffset, minWordLen,
                                      minNGram, maxNGram)
     ELSE <<>>)
    \o WalkChildren(n.children, content, frontmatterOffset, minWordLen, minNGram, maxNGram)

WalkChildren(children, content, frontmatterOffset, minWordLen, minNGram, maxNGram) ==
    IF children = <<>> THEN <<>>
    ELSE walkNodesWithPosition(Head(children), content, frontmatterOffset,
                               minWordLen, minNGram, maxNGram)
         \o WalkChildren(Tail(children), content, frontmatterOffset, minWordLen,
                         minNGram, maxNGram)

\* the occurrences in generation order, before the sort
GeneratedOccurrences(content, minWordLen, minNGram, maxNGram) ==
    LET sk == skipFrontmatter(content)
    IN  walkNodesWithPosition(GoldmarkParse(sk.content), sk.content, sk.skipped,
                              minWordLen, minNGram, maxNGram)

\* the stable order by Position: the first of the least comes first
RECURSIVE StableSort(_)
StableSort(occs) ==
    IF occs = <<>> THEN <<>>
    ELSE LET i == CHOOSE k \in 1..Len(occs) :
                    /\ \A j \in 1..Len(occs) : occs[k].Position <= occs[j].Position
                    /\ \A j \in 1..(k - 1) : occs[j].Position # occs[k].Position
         IN  <<occs[i]>>
             \o StableSort(SubSeq(occs, 1, i - 1) \o SubSeq(occs, i + 1, Len(occs)))

\* every order of sorted that keeps Position non-decreasing
RECURSIVE TieOrders(_)
TieOrders(sorted) ==
    IF sorted = <<>> THEN {<<>>}
    ELSE LET k == Cardinality({j \in 1..Len(sorted) : sorted[j].Position = sorted[1].Position})
             perms == {f \in [1..k -> 1..k] : \A x, y \in 1..k : x # y => f[x] # f[y]}
         IN  {[j \in 1..k |-> sorted[f[j]]] \o r :
                 f \in perms, r \in TieOrders(SubSeq(sorted, k + 1, Len(sorted)))}

\* sort.Slice by Position: the results it may give
SortSlice(occs) ==
    IF Len(occs) <= maxInsertion THEN {StableSort(occs)}
    ELSE TieOrders(StableSort(occs))

\* FindWordOccurrences: the results it may return
FindWordOccurrences(content, minWordLen, minNGram, maxNGram) ==
    SortSlice(GeneratedOccurrences(content, minWordLen, minNGram, maxNGram))

\* the frequency map of a sequence of occurrences
WordFreqOf(occs) ==
    [w \in {occs[i].Word : i \in 1..Len(occs)} |->
        Cardinality({i \in 1..Len(occs) : occs[i].Word = w})]

\* ParseContent: FindWordOccurrences(content, 1), counted by Word
ParseContent(content, minNGram, maxNGram) ==
    {WordFreqOf(occs) : occs \in FindWordOccurrences(content, 1, minNGram, maxNGram)}

\* NewParser: a MinNGram below 1 becomes 1
NewParser(config) ==
    [minNGram |-> IF config[1] < 1 THEN 1 ELSE config[1], maxNGram |-> config[2]]

-----------------------------------------------------------------------------
(* the contents and configurations the tokenizer is run on *)

\* "Foo bar."
ProseLine ==
    <<"F", "o", "o", " ", "b", "a", "r", ".">>

\* a significant word of two letters, then two longer ones
ShortWordLine ==
    <<"o", "x", " ", "f", "o", "o", " ", "b", "a", "r">>

\* a stop word that holds the next word as a substring
SubstringLine ==
    <<"t", "h", "a", "t", " ", "h", "a", "t", " ", "c", "a", "t">>


Bodies ==
    LET lines == {ProseLine,
                  \* an inline code span, then a word
                  <<"~", "f", "o", "o", " ", "b", "a", "r", "~", " ", "b", "a", "z">>,
                  \* the line that opens or closes a fenced code block
                  <<"~", "~", "~">>}
    IN  {Join(ls, Newline) : ls \in UNION {[1..n -> lines] : n \in 0..MaxBodyLines}}
    \cup {ShortWordLine, SubstringLine,
          \* eight significant words in one text run
          <<"a", "a", "a", " ", "b", "b", "b", " ", "c", "c", "c", " ", "d",
            "d", "d", " ", "e", "e", "e", " ", "f", "f", "f", " ", "g", "g",
            "g", " ", "h", "h", "h">>,
          \* a word with punctuation before and after it
          <<"(", "f", "o", "o", ")", " ", "b", "a", "r">>,
          \* a stop word, a word, then more than contextSize bytes of short words
          <<"i", "s", " ", "f", "o", "o", "b", "a", "r", " ", "z", "z", " ",
            "z", "z", " ", "z", "z", " ", "z", "z", " ", "z", "z", " ", "z",
            "z", " ", "z", "z", " ", "z", "z", " ", "z", "z", " ", "z", "z",
            " ", "z", "z", " ", "z", "z", " ", "z", "z", " ", "z", "z", " ",
            "z", "z", " ", "z", "z", " ", "z", "z", " ", "z", "z", " ", "z",
            "z", " ", "z", "z">>,
          \* an ATX heading, then a paragraph
          <<"#", " ", "F", "o", "o", " ", "b", "a", "r", "\n", "B", "a", "z",
            " ", "q", "u", "x">>,
          \* a "!" that starts no image, between two pairs of words
          <<"F", "o", "o", " ", "b", "a", "r", "!", " ", "B", "a", "z", " ",
            "q", "u", "x">>,
          \* a form feed between two words
          <<"f", "o", "o", "\f", "b", "a", "r", " ", "b", "a", "z">>,
          \* a no-break space (U+00A0, two bytes) between two words
          <<"f", "o", "o", "\\xC2", "\\xA0", "b", "a", "r", " ", "b", "a", "z">>,
          \* an em space (U+2003, three bytes) between two words
          <<"f", "o", "o", "\\xE2", "\\x80", "\\x83", "b", "a", "r", " ", "b",
            "a", "z">>,
          \* a hard line break: a backslash before a carriage return and newline
          <<"f", "o", "o", " ", "b", "a", "r", "\\", "\r", "\n", "b", "a", "z">>,
          \* a thematic break with a form feed in it, then a paragraph
          <<"-", "\f", "-", "-", "\n", "f", "o", "o", " ", "b", "a", "r">>,
          \* a paragraph whose second line starts with a tab
          <<"f", "o", "o", "\n", "\t", "b", "a", "r", " ", "b", "a", "z">>,
          \* dashes after a form feed: no thematic break, a paragraph
          <<"\f", "-", "-", "-", "\n", "f", "o", "o", " ", "b", "a", "r">>,
          \* a line that ends in three backslashes, then a backslash before
          \* a code span: the escaped flag of the first line takes it
          <<"b", "a", "z", "\\", "\\", "\\", "\n", "\\", "~", "f", "o", "o", " ",
            "b", "a", "r", "~">>}

Contents ==
    \* the front matter a content starts with
    LET fronts ==
    {
        <<>>,
        \* a front-matter block, closed by a fence line
        <<"-", "-", "-", "\n", "k", "e", "y", " ", "v", "a", "l", "\n", "-", "-",
          "-", "\n">>,
        \* the closing fence is the last line, without a newline
        <<"-", "-", "-", "\n", "k", "e", "y", " ", "v", "a", "l", "\n", "-", "-",
          "-">>,
        \* the fence characters stand inside a front-matter line
        <<"-", "-", "-", "\n", "k", "-", "-", "-", "v", "\n", "k", "e", "y", " ",
          "v", "a", "l", "\n", "-", "-", "-", "\n">>,
        \* a +++ block
        <<"+", "+", "+", "\n", "k", "e", "y", " ", "v", "a", "l", "\n", "+", "+",
          "+", "\n">>,
        \* an opening fence line and no closing one
        <<"-", "-", "-", "\n", "k", "e", "y", " ", "v", "a", "l", "\n">>
    }
    IN  {fm \o body : fm \in fronts, body \in Bodies}

ParserInit ==
    \E c \in Contents,
       config \in {<<0, 1>>, <<1, 1>>, <<1, 2>>, <<2, 2>>, <<2, 3>>} :
        prs = [phase |-> "ready", content |-> c, parser |-> NewParser(config)]

FindWordOccurrencesCall(minWordLen) ==
    /\ prs.phase = "ready"
    /\ \E occs \in FindWordOccurrences(prs.content, minWordLen,
                                       prs.parser.minNGram, prs.parser.maxNGram) :
          prs' = [phase |-> "found", content |-> prs.content, parser |-> prs.parser,
                  minWordLen |-> minWordLen, occurrences |-> occs]

ParseContentCall ==
    /\ prs.phase = "ready"
    /\ \E wf \in ParseContent(prs.content, prs.parser.minNGram, prs.parser.maxNGram) :
          prs' = [phase |-> "parsed", content |-> prs.content, parser |-> prs.parser,
                  wordFreq |-> wf]

InitParser ==
    /\ ParserInit
    /\ docs = <<>>
    /\ avgdl = FFin(0)
    /\ idf = <<>>
    /\ lastScore = NoCall
    /\ ins = InsIdle
    /\ cch = CchIdle
    /\ ana = AnaIdle

NextParser ==
    \/ \E minWordLen \in {1, 3} :
          FindWordOccurrencesCall(minWordLen)
          /\ UNCHANGED <<docs, avgdl, idf, lastScore, ins, cch, ana>>
    \/ ParseContentCall /\ UNCHANGED <<docs, avgdl, idf, lastScore, ins, cch, ana>>

SpecParser == InitParser /\ [][NextParser]_vars

-----------------------------------------------------------------------------
(* claims about the tokenizer, checked under SpecParser *)

Found == prs.phase = "found"

Positions(occs) == [i \in 1..Len(occs) |-> occs[i].Position]

\* C8 (as claimed): the sequence FindWordOccurrences returns is the stable
\* ordering by position of the generated occurrences: positions never
\* decrease, and occurrences with the same position keep their generation
\* order (the shorter n-gram before the longer one).
C8_StableOrderByPosition ==
    Found =>
        /\ \A i \in 1..(Len(prs.occurrences) - 1) :
              prs.occurrences[i].Position <= prs.occurrences[i + 1].Position
        /\ prs.occurrences =
              StableSort(GeneratedOccurrences(prs.content, prs.minWordLen,
                                              prs.parser.minNGram, prs.parser.maxNGram))

\* the fence a content opens with, <<>> when it opens with none
OpeningFence(content) ==
    IF HasPrefixAt(content, 0, Dashes) THEN Dashes
    ELSE IF HasPrefixAt(content, 0, Pluses) THEN Pluses
    ELSE <<>>

\* the lines after the first that are the closing fence line
ClosingLines(content) ==
    LET lines == LinesFrom(content, 0)
    IN  {i \in 2..Len(lines) :
            SubSeq(content, lines[i].start + 1, lines[i].stop) = OpeningFence(content)}

HasFrontMatter(content) ==
    OpeningFence(content) # <<>> /\ ClosingLines(content) # {}

\* the offset of the first byte after the closing fence line
FrontMatterEnd(content) ==
    LET lines == LinesFrom(content, 0)
        c == CHOOSE i \in ClosingLines(content) : \A j \in ClosingLines(content) : i <= j
    IN  Min(lines[c].stop + 1, Len(content))

\* C9 (as claimed): when the content opens with a fence line and has a later
\* closing fence line, every reported position is at or after the first byte
\* that follows the closing fence line.
C9_NoOccurrenceInFrontMatter ==
    (Found /\ HasFrontMatter(prs.content)) =>
        \A i \in 1..Len(prs.occurrences) :
            prs.occurrences[i].Position >= FrontMatterEnd(prs.content)

\* the segments of the text that lies in a code region of the tree: the Text
\* nodes under a code node, and the lines of a code block
RECURSIVE CodeSegments(_, _)
CodeSegments(n, inCode) ==
    LET code == inCode \/ n.kind \in {"CodeSpan", "FencedCodeBlock", "CodeBlock"}
    IN  (IF (n.kind = "Text" /\ inCode) \/ n.kind \in {"FencedCodeBlock", "CodeBlock"}
         THEN {[start |-> n.start, stop |-> n.stop]} ELSE {})
        \cup UNION {CodeSegments(n.children[i], code) : i \in 1..Len(n.children)}

\* C10 (as claimed): no occurrence starts in the text of a fenced code block,
\* an indented code block or an inline code span.
C10_NoOccurrenceInCode ==
    Found =>
        LET sk == skipFrontmatter(prs.content)
            segs == CodeSegments(GoldmarkParse(sk.content), FALSE)
        IN  \A i \in 1..Len(prs.occurrences) : \A seg \in segs :
                ~(/\ seg.start <= prs.occurrences[i].Position - sk.skipped
                  /\ prs.occurrences[i].Position - sk.skipped < seg.stop)

\* the text runs (Text nodes) of a tree, in walk order
RECURSIVE TextRuns(_)
RECURSIVE TextRunsOf(_)
TextRuns(n) ==
    (IF n.kind = "Text" THEN <<[start |-> n.start, stop |-> n.stop]>> ELSE <<>>)
    \o TextRunsOf(n.children)

TextRunsOf(children) ==
    IF children = <<>> THEN <<>>
    ELSE TextRuns(Head(children)) \o TextRunsOf(Tail(children))

\* the texts of the runs of a content
RunTexts(content) ==
    LET body == skipFrontmatter(content).content
        runs == TextRuns(GoldmarkParse(body))
    IN  [r \in 1..Len(runs) |-> SubSeq(body, runs[r].start + 1, runs[r].stop)]

\* the words of a text, trimmed of punctuation and lower-cased
Normalized(text) == [i \in 1..Len(Fields(text)) |-> ToLower(Trim(Fields(text)[i]))]

\* a word that carries meaning: not empty, not a number, not a stop word
Significant(w) == w # <<>> /\ ~IsNumeric(w) /\ w \notin functionWords

\* the significant words of one or two characters in the text runs
ShortSignificantWords(content) ==
    LET words == [r \in DOMAIN RunTexts(content) |-> Normalized(RunTexts(content)[r])]
    IN  UNION {{words[r][i] : i \in {j \in 1..Len(words[r]) :
                    Significant(words[r][j]) /\ Len(words[r][j]) <= 2}} :
               r \in DOMAIN words}

\* C11 (as claimed): the table ParseContent returns with minN = 1 counts
\* every significant word of one or two characters; the length floor is
\* applied by FindWordOccurrences only.
C11_ShortWordsCounted ==
    (prs.phase = "parsed" /\ prs.parser.minNGram = 1) =>
        \A w \in ShortSignificantWords(prs.content) : w \in DOMAIN prs.wordFreq

\* the words of a text that survive the filter: significant and longer than
\* two characters
Surviving(text) ==
    SelectSeq(Normalized(text), LAMBDA w : Significant(w) /\ Len(w) > 2)

\* run r, length n, start i: every place an n-gram of the range starts
NGramStarts(surv, minN, maxN) ==
    UNION {{<<r, n, i>> : i \in 1..(Len(surv[r]) - n + 1)} :
           <<r, n>> \in (DOMAIN surv) \X (minN..maxN)}

NGramAt(surv, p) == Join(SubSeq(surv[p[1]], p[3], p[3] + p[2] - 1), <<" ">>)

\* the table of the n-grams of every length minN..maxN of every text run
ExpectedTable(content, minN, maxN) ==
    LET surv == [r \in DOMAIN RunTexts(content) |-> Surviving(RunTexts(content)[r])]
        starts == NGramStarts(surv, minN, maxN)
    IN  [t \in {NGramAt(surv, p) : p \in starts} |->
            Cardinality({p \in starts : NGramAt(surv, p) = t})]

\* C12 (as claimed): the terms emitted are exactly the contiguous sequences
\* of surviving significant words of each text run, of every length
\* minN..maxN, one per start index.
C12_NGramsOfEveryLength ==
    /\ Found =>
          WordFreqOf(prs.occurrences) =
              ExpectedTable(prs.content, prs.parser.minNGram, prs.parser.maxNGram)
    /\ prs.phase = "parsed" =>
          prs.wordFreq =
              ExpectedTable(prs.content, prs.parser.minNGram, prs.parser.maxNGram)

\* a byte of a word: a letter or a digit
IsWordByte(c) ==
    \/ c \in Digits
    \/ ToLowerByte(c) \in {"a", "b", "c", "d", "e", "f", "g", "h", "i", "j", "k", "l", "m",
                          "n", "o", "p", "q", "r", "s", "t", "u", "v", "w", "x", "y", "z"}

\* the first word of a term
FirstWord(term) == Fields(term)[1]

\* position is the offset in content at which word starts: the bytes there,
\* lower-cased, are the word, and no byte of a word stands right before them
StartsAt(content, word, position) ==
    /\ position >= 0
    /\ position + Len(word) <= Len(content)
    /\ ToLower(SubSeq(content, position + 1, position + Len(word))) = word
    /\ position > 0 => ~IsWordByte(content[position])

\* C13 (as claimed): the Position of every occurrence is the byte offset in
\* the original content at which the first word of its term starts.
C13_PositionIsWordStart ==
    Found =>
        \A i \in 1..Len(prs.occurrences) :
            StartsAt(prs.content, FirstWord(prs.occurrences[i].Word),
                     prs.occurrences[i].Position)

\* the offset just past the n-th surviving word of s found from offset i on,
\* -1 when there are fewer than n
RECURSIVE SpanEnd(_, _, _)
SpanEnd(s, i, n) ==
    LET starts == {k \in FieldStarts(s) : k > i}
    IN  IF starts = {} THEN -1
        ELSE LET k == CHOOSE x \in starts : \A y \in starts : x <= y
                 e == FieldStop(s, k)
                 w == ToLower(Trim(SubSeq(s, k, e)))
             IN  IF Significant(w) /\ Len(w) > 2
                 THEN (IF n = 1 THEN e ELSE SpanEnd(s, e, n - 1))
                 ELSE SpanEnd(s, e, n)

\* the surviving words of s from offset i up to offset e, joined by spaces
SpanTerm(s, i, e) == Join(Surviving(SubSeq(s, i + 1, e)), <<" ">>)

\* the window of the claim: 50 bytes before start, 50 bytes after end, both
\* clipped; whitespace runs collapsed; "..." where the window is cut
WindowContext(s, start, end) ==
    LET from == Max(start - contextSize, 0)
        to == Min(end + contextSize, Len(s))
    IN  (IF from > 0 THEN Ellipsis ELSE <<>>)
        \o Join(Fields(SubSeq(s, from + 1, to)), <<" ">>)
        \o (IF to < Len(s) THEN Ellipsis ELSE <<>>)

\* C19 (as claimed): the Context of every occurrence is the window around
\* the span that starts at the occurrence's start and ends at the end of the
\* raw text of its last word, for unigrams and for n-grams.  The occurrences
\* looked at are those whose Position is the start of a raw word and whose
\* term is made of the surviving words found from there.
C19_ContextSpansOwnWords ==
    Found =>
        LET front == skipFrontmatter(prs.content)
            body == front.content
        IN  \A i \in 1..Len(prs.occurrences) :
                LET occ == prs.occurrences[i]
                    start == occ.Position - front.skipped
                    end == SpanEnd(body, start, Len(Fields(occ.Word)))
                IN  (/\ start >= 0
                     /\ start < Len(body)
                     /\ ~IsSpace(body[start + 1])
                     /\ start > 0 => IsSpace(body[start])
                     /\ end # -1
                     /\ SpanTerm(body, start, end) = occ.Word)
                        => occ.Context = WindowContext(body, start, end)

-----------------------------------------------------------------------------
(* pkg/cache, with the files and the clock it depends on.  cch is a record  *)
(* [now, files, entries, parser, loaded]: files maps a path to its content  *)
(* and modification time, entries maps a cache path to the cache file.      *)

MaxClock == 2

NoEntry == [kind |-> "none"]

NoLoad == [kind |-> "none"]

\* getCachePath: the cache file of a document, named after its path
getCachePath(docPath) == <<"cache", docPath>>

\* json.Marshal of a DocumentCache: the members of its word_freq object
Marshal(wordFreq) == {<<k, wordFreq[k]>> : k \in DOMAIN wordFreq}

\* json.Unmarshal into a DocumentCache: the map of the members
Unmarshal(data) ==
    [k \in {m[1] : m \in data} |-> (CHOOSE m \in data : m[1] = k)[2]]

\* Cache.Get: no table when there is no cache file or the source file is
\* newer than it
CacheGet(c, docPath) ==
    LET entry == c.entries[getCachePath(docPath)]
    IN  IF entry = NoEntry THEN [hit |-> FALSE]
        ELSE IF c.files[docPath].mtime > entry.mtime THEN [hit |-> FALSE]
        ELSE [hit |-> TRUE, wordFreq |-> Unmarshal(entry.data)]

\* Cache.Set: the cache file is written now
CacheSet(c, docPath, wordFreq) ==
    [c EXCEPT !.entries[getCachePath(docPath)] =
        [kind |-> "file", data |-> Marshal(wordFreq), mtime |-> c.now]]

\* the body of loadDocuments for one file: the table it registers, whether
\* it came from the cache, and the cache afterwards
LoadResults(c, path) ==
    LET cached == CacheGet(c, path)
    IN  IF cached.hit
        THEN {[wordFreq |-> cached.wordFreq, hit |-> TRUE, cache |-> c]}
        ELSE {[wordFreq |-> wf, hit |-> FALSE, cache |-> CacheSet(c, path, wf)] :
                 wf \in ParseContent(c.files[path].content,
                                     c.parser.minNGram, c.parser.maxNGram)}

\* the table the ranker holds for a table of the tokenizer: a key becomes
\* the sequence of its fields
RankerTable(wordFreq) ==
    [t \in {Fields(k) : k \in DOMAIN wordFreq} |-> wordFreq[Join(t, <<" ">>)]]

CachePath == 1

CacheContents == {ProseLine, ShortWordLine, SubstringLine}

CacheConfigs == {<<1, 1>>, <<2, 2>>}

CacheInit ==
    \E c \in CacheContents, config \in CacheConfigs :
        cch = [now |-> 0,
               files |-> (CachePath :> [content |-> c, mtime |-> 0]),
               entries |-> (getCachePath(CachePath) :> NoEntry),
               dir |-> TRUE,
               parser |-> NewParser(config),
               run |-> [pc |-> "ready"],
               loaded |-> NoLoad]

\* time passes
Tick ==
    /\ cch.now < MaxClock
    /\ cch' = [cch EXCEPT !.now = cch.now + 1, !.loaded = NoLoad]
    /\ UNCHANGED <<docs, avgdl, idf, lastScore>>

\* the file is modified
WriteFile(content) ==
    /\ content # cch.files[CachePath].content
    /\ cch' = [cch EXCEPT !.files[CachePath] = [content |-> content, mtime |-> cch.now],
                          !.loaded = NoLoad]
    /\ UNCHANGED <<docs, avgdl, idf, lastScore>>

\* the next run is configured with other n-gram lengths
ChangeConfig(config) ==
    /\ cch.run = [pc |-> "ready"]
    /\ NewParser(config) # cch.parser
    /\ cch' = [cch EXCEPT !.parser = NewParser(config), !.loaded = NoLoad]
    /\ UNCHANGED <<docs, avgdl, idf, lastScore>>

\* Cache.Clear, os.RemoveAll: the cache directory is removed with its files
ClearRemoveAll ==
    /\ cch.dir
    /\ cch' = [cch EXCEPT !.entries = [p \in DOMAIN cch.entries |-> NoEntry],
                          !.dir = FALSE,
                          !.loaded = NoLoad]
    /\ UNCHANGED <<docs, avgdl, idf, lastScore>>

\* Cache.Clear, os.MkdirAll: the cache directory is made again, empty
ClearMkdirAll ==
    /\ ~cch.dir
    /\ cch' = [cch EXCEPT !.dir = TRUE, !.loaded = NoLoad]
    /\ UNCHANGED <<docs, avgdl, idf, lastScore>>

\* loadDocuments registers the table: a new analyzer's ranker holds it
Register(c, wordFreq, hit) ==
    /\ cch' = [c EXCEPT !.run = [pc |-> "ready"],
                        !.loaded = [kind |-> "loaded", wordFreq |-> wordFreq, hit |-> hit]]
    /\ docs' = <<RankerTable(wordFreq)>>
    /\ avgdl' = AvgDocLen(docs')
    /\ idf' = CalculateIDF(docs', <<>>)
    /\ lastScore' = NoCall

\* a run starts; NewAnalyzer, cache.NewCache: os.MkdirAll makes the cache
\* directory when it is not there
NewCache ==
    /\ cch.run = [pc |-> "ready"]
    /\ cch' = [cch EXCEPT !.dir = TRUE, !.loaded = NoLoad, !.run = [pc |-> "new"]]
    /\ UNCHANGED <<docs, avgdl, idf, lastScore>>

\* Cache.Get: os.Stat of the cache file
StatCache ==
    /\ cch.run = [pc |-> "new"]
    /\ LET entry == cch.entries[getCachePath(CachePath)]
       IN  cch' = [cch EXCEPT !.loaded = NoLoad,
                             !.run = IF entry = NoEntry THEN [pc |-> "miss"]
                                     ELSE [pc |-> "stat", mtime |-> entry.mtime]]
    /\ UNCHANGED <<docs, avgdl, idf, lastScore>>

\* Cache.Get: os.Stat of the source file, newer than the cache file or not
StatSource ==
    /\ cch.run.pc = "stat"
    /\ cch' = [cch EXCEPT !.run = IF cch.files[CachePath].mtime > cch.run.mtime
                                  THEN [pc |-> "miss"] ELSE [pc |-> "fresh"]]
    /\ UNCHANGED <<docs, avgdl, idf, lastScore>>

\* Cache.Get: os.ReadFile of the cache file and json.Unmarshal; the table is
\* registered, or loadDocuments fails when the file is gone
ReadCache ==
    /\ cch.run.pc = "fresh"
    /\ LET entry == cch.entries[getCachePath(CachePath)]
       IN  IF entry = NoEntry
           THEN /\ cch' = [cch EXCEPT !.run = [pc |-> "ready"],
                                      !.loaded = [kind |-> "error",
                                                  err |-> "failed to check cache"]]
                /\ UNCHANGED <<docs, avgdl, idf, lastScore>>
           ELSE Register(cch, Unmarshal(entry.data), TRUE)

\* loadDocuments after a miss: os.ReadFile of the source file, ParseContent
ReadSource ==
    /\ cch.run.pc = "miss"
    /\ \E wf \in ParseContent(cch.files[CachePath].content,
                               cch.parser.minNGram, cch.parser.maxNGram) :
          cch' = [cch EXCEPT !.run = [pc |-> "parsed", wordFreq |-> wf]]
    /\ UNCHANGED <<docs, avgdl, idf, lastScore>>

\* loadDocuments after ParseContent: Cache.Set, then the table is registered;
\* os.WriteFile fails while the cache directory is gone, and loadDocuments
\* returns the error with nothing registered
SetCache ==
    /\ cch.run.pc = "parsed"
    /\ IF cch.dir
       THEN Register(CacheSet(cch, CachePath, cch.run.wordFreq), cch.run.wordFreq, FALSE)
       ELSE /\ cch' = [cch EXCEPT !.run = [pc |-> "ready"],
                                  !.loaded = [kind |-> "error",
                                              err |-> "failed to cache results"]]
            /\ UNCHANGED <<docs, avgdl, idf, lastScore>>

InitCache ==
    /\ CacheInit
    /\ ScorerInit
    /\ ins = InsIdle
    /\ prs = PrsIdle
    /\ ana = AnaIdle

NextCache ==
    \/ NewCache /\ UNCHANGED <<ins, prs, ana>>
    \/ StatCache /\ UNCHANGED <<ins, prs, ana>>
    \/ StatSource /\ UNCHANGED <<ins, prs, ana>>
    \/ ReadCache /\ UNCHANGED <<ins, prs, ana>>
    \/ ReadSource /\ UNCHANGED <<ins, prs, ana>>
    \/ SetCache /\ UNCHANGED <<ins, prs, ana>>
    \/ ClearRemoveAll /\ UNCHANGED <<ins, prs, ana>>
    \/ ClearMkdirAll /\ UNCHANGED <<ins, prs, ana>>
    \/ \E config \in CacheConfigs : ChangeConfig(config) /\ UNCHANGED <<ins, prs, ana>>
    \/ \E content \in CacheContents : WriteFile(content) /\ UNCHANGED <<ins, prs, ana>>
    \/ Tick /\ UNCHANGED <<ins, prs, ana>>

SpecCache == InitCache /\ [][NextCache]_vars

-----------------------------------------------------------------------------
(* claims about the cache, checked under SpecCache *)

\* C17 (as claimed): whenever a run takes a table from the cache, it is the
\* table ParseContent produces from the file's current content under the
\* current configuration, and so is the table registered in the ranker.
C17_CacheTransparent ==
    (cch.loaded.kind = "loaded" /\ cch.loaded.hit) =>
        /\ cch.loaded.wordFreq \in
              ParseContent(cch.files[CachePath].content,
                           cch.parser.minNGram, cch.parser.maxNGram)
        /\ docs[1] \in
              {RankerTable(wf) :
                  wf \in ParseContent(cch.files[CachePath].content,
                                      cch.parser.minNGram, cch.parser.maxNGram)}

-----------------------------------------------------------------------------
(* pkg/analyzer.  ana is a record: docs is Analyzer.docs (path -> table);   *)
(* during an analysis it also holds the source, its content and            *)
(* occurrences, the targets the loop over Analyzer.docs has not visited    *)
(* yet (pending), positionSuggestions, and visits, the history of what each *)
(* visit of the loop did.  A path is a number; filepath.Walk visits the     *)
(* paths in increasing order.                                               *)

MaxFiles == 3

AnaPaths == 1..MaxFiles

AnaContents == {
    \* "foo bar foo"
    <<"f", "o", "o", " ", "b", "a", "r", " ", "f", "o", "o">>,
    \* "bar foo"
    <<"b", "a", "r", " ", "f", "o", "o">>,
    \* "foo zap zap"
    <<"f", "o", "o", " ", "z", "a", "p", " ", "z", "a", "p">>
}

\* Config.MinScore: the default of --min-score, 0.3
MinScore == FFin((3 * Scale) \div 10)

\* a > b on float64
FGreater(a, x) ==
    /\ a.k # "nan"
    /\ x.k # "nan"
    /\ IF a.k = "inf" THEN a.v = 1 /\ ~(x.k = "inf" /\ x.v = 1)
       ELSE IF x.k = "inf" THEN x.v = -1
       ELSE a.v > x.v

\* a >= b on float64
FGreaterEq(a, x) ==
    /\ a.k # "nan"
    /\ x.k # "nan"
    /\ (FGreater(a, x) \/ a = x)

\* the sequences that hold every element of the set S once: the orders in
\* which a map with these keys may be iterated
Orders(S) ==
    {f \in [1..Cardinality(S) -> S] :
        \A i, j \in 1..Cardinality(S) : i # j => f[i] # f[j]}

NoOccurrence == [kind |-> "nil"]

\* wordOccurrences[word]: the occurrences of word, in the order of the slice
GroupOf(occs, word) == SelectSeq(occs, LAMBDA o : o.Word = word)

\* the keys of wordOccurrences
GroupKeys(occs) == {occs[i].Word : i \in 1..Len(occs)}

\* the loop over wordOccurrences that takes the last occurrence of a word
RECURSIVE BestOccurrenceLast(_, _, _, _)
BestOccurrenceLast(order, occs, wordFreq, st) ==
    IF order = <<>> THEN st
    ELSE LET word == Head(order)
         IN  IF word \in DOMAIN wordFreq /\ wordFreq[word] > st.maxFreq
             THEN BestOccurrenceLast(Tail(order), occs, wordFreq,
                      [maxFreq |-> wordFreq[word],
                       best |-> GroupOf(occs, word)[Len(GroupOf(occs, word))]])
             ELSE BestOccurrenceLast(Tail(order), occs, wordFreq, st)

\* the loop over wordOccurrences, in the iteration order given:
\* st = [maxFreq, best]
RECURSIVE BestOccurrence(_, _, _, _)
BestOccurrence(order, occs, wordFreq, st) ==
    IF order = <<>> THEN st
    ELSE LET word == Head(order)
         IN  IF word \in DOMAIN wordFreq /\ wordFreq[word] > st.maxFreq
             THEN BestOccurrence(Tail(order), occs, wordFreq,
                      [maxFreq |-> wordFreq[word],
                       best |-> GroupOf(occs, word)[1]])
             ELSE BestOccurrence(Tail(order), occs, wordFreq, st)

LinkSuggestion(source, target, score, occ) ==
    [SourcePath |-> source, TargetPath |-> target, Score |-> score,
     WordToLink |-> occ.Word, Position |-> occ.Position, Context |-> occ.Context]

\* the rule that keeps the suggestion met first at a position
RecordSuggestionFirst(ps, s) ==
    IF s.Position \notin DOMAIN ps THEN (s.Position :> s) @@ ps ELSE ps

\* positionSuggestions after a suggestion is made: it is stored when its
\* position is free or its score is higher than the stored one's
RecordSuggestion(ps, s) ==
    IF s.Position \notin DOMAIN ps \/ FGreater(s.Score, ps[s.Position].Score)
    THEN (s.Position :> s) @@ ps
    ELSE ps

\* Score(string(content), targetDoc)
ScoreContent(content, wordFreq, idfm, avg) ==
    ScoreWords(Fields(ToLower(content)), RankerTable(wordFreq), idfm, avg)

\* one pass of the loop over Analyzer.docs, for targetPath, with the
\* iteration order of wordOccurrences given
VisitTargetResult(a, targetPath, order, idfm, avg) ==
    LET rest == a.pending \ {targetPath}
        score == ScoreContent(a.content, a.docs[targetPath], idfm, avg)
        best == BestOccurrence(order, a.occurrences, a.docs[targetPath],
                               [maxFreq |-> 0, best |-> NoOccurrence]).best
        suggestion == LinkSuggestion(a.source, targetPath, score, best)
    IN  IF targetPath = a.source
        THEN [a EXCEPT !.pending = rest,
                       !.visits = Append(@, [target |-> targetPath, kind |-> "self"])]
        ELSE IF ~FGreaterEq(score, MinScore) \/ best = NoOccurrence
        THEN [a EXCEPT !.pending = rest,
                       !.visits = Append(@, [target |-> targetPath, kind |-> "none",
                                             score |-> score])]
        ELSE [a EXCEPT !.pending = rest,
                       !.positionSuggestions = RecordSuggestion(@, suggestion),
                       !.visits = Append(@, [target |-> targetPath, kind |-> "suggestion",
                                             score |-> score,
                                             suggestion |-> suggestion])]

\* analyzeSingleDocument up to the loop: the content is read, the
\* occurrences are found
StartRecord(adocs, source, content, occs) ==
    [phase |-> "analyzing", docs |-> adocs, source |-> source, content |-> content,
     occurrences |-> occs, pending |-> DOMAIN adocs,
     positionSuggestions |-> <<>>, visits |-> <<>>,
     all |-> FALSE, todo |-> {}, suggestions |-> <<>>]

AnalyzerInit ==
    \E files \in [AnaPaths -> AnaContents], minN \in {1, 2} :
        /\ cch = [now |-> 0,
                  files |-> [p \in AnaPaths |-> [content |-> files[p], mtime |-> 0]],
                  entries |-> [cp \in {getCachePath(p) : p \in AnaPaths} |-> NoEntry],
                  parser |-> NewParser(<<minN, ScorerMaxNGram>>),
                  loaded |-> NoLoad]
        /\ ana = [phase |-> "loading", docs |-> <<>>]

\* loadDocuments, one file of the walk
LoadDocument ==
    /\ ana.phase = "loading"
    /\ LET left == AnaPaths \ DOMAIN ana.docs
           path == CHOOSE p \in left : \A q \in left : p <= q
       IN  \E r \in LoadResults(cch, path) :
              /\ cch' = r.cache
              /\ ProcessDocumentStep(RankerTable(r.wordFreq))
              /\ ana' = [phase |-> IF left = {path} THEN "loaded" ELSE "loading",
                         docs |-> (path :> r.wordFreq) @@ ana.docs]

\* Analyze with SingleFile set to a loaded path: analyzeSingleDocument(doc),
\* up to the loop over the targets
StartAnalysis(source) ==
    /\ ana.phase = "loaded"
    /\ \E occs \in FindWordOccurrences(cch.files[source].content, 3,
                                       cch.parser.minNGram, cch.parser.maxNGram) :
          ana' = StartRecord(ana.docs, source, cch.files[source].content, occs)
    /\ UNCHANGED <<docs, avgdl, idf, lastScore, cch>>

\* Analyze with SingleFile set to a path that is no key of Analyzer.docs:
\* the error "file not found" is returned
FileNotFound ==
    /\ ana.phase = "loaded"
    /\ ana' = [phase |-> "notfound", docs |-> ana.docs]
    /\ UNCHANGED <<docs, avgdl, idf, lastScore, cch>>

\* Analyze with SingleFile empty, one pass of the loop over Analyzer.docs:
\* analyzeSingleDocument(doc) for a document not analysed yet, up to the
\* loop over the targets.  todo holds the documents the loop has not met,
\* suggestions the slice appended to so far
StartDocument(source) ==
    /\ \/ ana.phase = "loaded"
       \/ ana.phase = "analysed" /\ source \in ana.todo
    /\ \E occs \in FindWordOccurrences(cch.files[source].content, 3,
                                       cch.parser.minNGram, cch.parser.maxNGram) :
          ana' = [StartRecord(ana.docs, source, cch.files[source].content, occs)
                     EXCEPT !.all = TRUE,
                            !.todo = (IF ana.phase = "loaded" THEN DOMAIN ana.docs
                                      ELSE ana.todo) \ {source},
                            !.suggestions = IF ana.phase = "loaded" THEN <<>>
                                            ELSE ana.suggestions]
    /\ UNCHANGED <<docs, avgdl, idf, lastScore, cch>>

\* one pass of the loop over the targets
VisitTarget(targetPath, order) ==
    /\ ana.phase = "analyzing"
    /\ targetPath \in ana.pending
    /\ ana' = VisitTargetResult(ana, targetPath, order, idf, avgdl)
    /\ lastScore' =
          IF targetPath = ana.source THEN lastScore
          ELSE [kind |-> "score", query |-> Fields(ToLower(ana.content)),
                doc |-> RankerTable(ana.docs[targetPath]),
                score |-> ScoreContent(ana.content, ana.docs[targetPath], idf, avgdl)]
    /\ UNCHANGED <<docs, avgdl, idf, cch>>

\* the map is converted to the slice analyzeSingleDocument returns
\* (docSuggestions); Analyze returns it, or appends it to its slice and
\* goes on with the loop over Analyzer.docs
FinishAnalysis ==
    /\ ana.phase = "analyzing"
    /\ ana.pending = {}
    /\ \E out \in Orders({ana.positionSuggestions[p] : p \in DOMAIN ana.positionSuggestions}) :
          ana' = [phase |-> IF ana.all /\ ana.todo # {} THEN "analysed" ELSE "done",
                  docs |-> ana.docs, source |-> ana.source,
                  content |-> ana.content, occurrences |-> ana.occurrences,
                  pending |-> {}, positionSuggestions |-> ana.positionSuggestions,
                  visits |-> ana.visits, all |-> ana.all, todo |-> ana.todo,
                  docSuggestions |-> out, suggestions |-> ana.suggestions \o out]
    /\ UNCHANGED <<docs, avgdl, idf, lastScore, cch>>

InitAnalyzer ==
    /\ AnalyzerInit
    /\ ScorerInit
    /\ ins = InsIdle
    /\ prs = PrsIdle

NextAnalyzer ==
    \/ LoadDocument /\ UNCHANGED <<ins, prs>>
    \/ \E source \in AnaPaths : StartAnalysis(source) /\ UNCHANGED <<ins, prs>>
    \/ FileNotFound /\ UNCHANGED <<ins, prs>>
    \/ /\ ana.phase = "analyzing"
       /\ \E targetPath \in AnaPaths :
             \E order \in Orders(GroupKeys(ana.occurrences)) :
                VisitTarget(targetPath, order) /\ UNCHANGED <<ins, prs>>
    \/ FinishAnalysis /\ UNCHANGED <<ins, prs>>

SpecAnalyzer == InitAnalyzer /\ [][NextAnalyzer]_vars

-----------------------------------------------------------------------------
(* claims about the analyzer, checked under SpecAnalyzer *)

\* the candidate suggestions the targets produced, in the order of the visits
Candidates(a) ==
    LET made == SelectSeq(a.visits, LAMBDA v : v.kind = "suggestion")
    IN  [k \in 1..Len(made) |-> made[k].suggestion]

\* C14: the suggestions returned have pairwise distinct positions, one for
\* every position a candidate was produced for; the one kept at a position
\* has the maximum score among the candidates for that position, and among
\* the candidates with that score it is the first one produced (a later
\* candidate replaces a kept one only when its score is strictly higher).
C14_KeepsBestPerPosition ==
    ana.phase \in {"done", "analysed"} =>
        LET cands == Candidates(ana)
            out == ana.docSuggestions
        IN  /\ \A i, j \in 1..Len(out) : i # j => out[i].Position # out[j].Position
            /\ {cands[k].Position : k \in 1..Len(cands)} =
                  {out[i].Position : i \in 1..Len(out)}
            /\ \A i \in 1..Len(out) : \E k \in 1..Len(cands) :
                  /\ cands[k] = out[i]
                  /\ \A m \in 1..Len(cands) :
                        cands[m].Position = out[i].Position =>
                            ~FGreater(cands[m].Score, out[i].Score)
                  /\ \A m \in 1..(k - 1) :
                        cands[m].Position = out[i].Position =>
                            FGreater(out[i].Score, cands[m].Score)

\* C14 witness: two targets produced candidates for one position, the later
\* one with the higher score, and the later one is the suggestion returned.
C14_Witness ==
    /\ ana.phase = "done"
    /\ \E k, m \in 1..Len(Candidates(ana)) :
          /\ k < m
          /\ Candidates(ana)[k].Position = Candidates(ana)[m].Position
          /\ FGreater(Candidates(ana)[m].Score, Candidates(ana)[k].Score)
          /\ \E i \in 1..Len(ana.docSuggestions) :
                ana.docSuggestions[i] = Candidates(ana)[m]

\* the keys of wordOccurrences in the order of their first occurrence
RECURSIVE FirstSeenOrder(_, _)
FirstSeenOrder(occs, seen) ==
    IF occs = <<>> THEN <<>>
    ELSE IF Head(occs).Word \in seen THEN FirstSeenOrder(Tail(occs), seen)
    ELSE <<Head(occs).Word>> \o FirstSeenOrder(Tail(occs), seen \cup {Head(occs).Word})

\* the loop over the targets, run in the order given, with one iteration
\* order of wordOccurrences
RECURSIVE AnalyzeInOrder(_, _, _, _, _)
AnalyzeInOrder(a, targets, order, idfm, avg) ==
    IF targets = <<>> THEN a
    ELSE AnalyzeInOrder(VisitTargetResult(a, Head(targets), order, idfm, avg),
                        Tail(targets), order, idfm, avg)

\* the suggestions of the run that visits the targets in increasing path
\* order and the terms in the order of their first occurrence
ReferenceRun ==
    AnalyzeInOrder(StartRecord(ana.docs, ana.source, ana.content, ana.occurrences),
                   [i \in 1..MaxFiles |-> i],
                   FirstSeenOrder(ana.occurrences, {}), idf, avgdl).positionSuggestions

\* C15 (as claimed): the suggestions do not depend on the order in which the
\* document map and the occurrence-group map are iterated: every run returns,
\* for every position, the suggestion of the reference run.
C15_SameSuggestionsEveryRun ==
    ana.phase \in {"done", "analysed"} => ana.positionSuggestions = ReferenceRun

\* the terms that are keys of the source's occurrence groups and of the
\* target's table
SharedTerms(a, target) == GroupKeys(a.occurrences) \cap DOMAIN a.docs[target]

\* occ is the first (lowest-position) occurrence of word in the source
IsFirstOccurrence(a, word, position, context) ==
    /\ \E i \in 1..Len(a.occurrences) :
          /\ a.occurrences[i].Word = word
          /\ a.occurrences[i].Position = position
          /\ a.occurrences[i].Context = context
    /\ \A j \in 1..Len(a.occurrences) :
          a.occurrences[j].Word = word => a.occurrences[j].Position >= position

\* C16: a target yields a suggestion exactly when it is not the source, its
\* score is at least the threshold and it shares a term with the source; the
\* term chosen is a shared term, no shared term has a higher frequency in the
\* target's table, and the position and context are those of the first
\* occurrence of the chosen term in the source.
C16_BestSharedTermFirstOccurrence ==
    ana.phase \in {"analyzing", "analysed", "done"} =>
        \A n \in 1..Len(ana.visits) :
            LET v == ana.visits[n]
                table == ana.docs[v.target]
                shared == SharedTerms(ana, v.target)
            IN  /\ v.kind = "self" <=> v.target = ana.source
                /\ v.kind = "none" =>
                      (~FGreaterEq(v.score, MinScore) \/ shared = {})
                /\ v.kind = "suggestion" =>
                      /\ FGreaterEq(v.score, MinScore)
                      /\ v.suggestion.SourcePath = ana.source
                      /\ v.suggestion.TargetPath = v.target
                      /\ v.suggestion.Score = v.score
                      /\ v.suggestion.WordToLink \in shared
                      /\ \A t \in shared : table[t] <= table[v.suggestion.WordToLink]
                      /\ IsFirstOccurrence(ana, v.suggestion.WordToLink,
                                           v.suggestion.Position, v.suggestion.Context)

\* C16 witness: a target shares two terms of different frequency with the
\* source, the chosen term occurs twice in the source, and another target
\* visited in the same analysis shares a term with the source but scores
\* below the threshold and yields no suggestion.
C16_Witness ==
    /\ ana.phase = "done"
    /\ \E n \in 1..Len(ana.visits) :
          /\ ana.visits[n].kind = "suggestion"
          /\ \E t \in SharedTerms(ana, ana.visits[n].target) :
                ana.docs[ana.visits[n].target][t] <
                    ana.docs[ana.visits[n].target][ana.visits[n].suggestion.WordToLink]
          /\ Len(GroupOf(ana.occurrences, ana.visits[n].suggestion.WordToLink)) >= 2
    /\ \E n \in 1..Len(ana.visits) :
          /\ ana.visits[n].kind = "none"
          /\ SharedTerms(ana, ana.visits[n].target) # {}

\* the query n-grams that are keys of a table, as indices into allQueryTerms
FoundTerms(query, doc) ==
    LET terms == AllQueryTerms(QueryTerms(query))
    IN  {terms[n] : n \in {m \in 1..Len(terms) : terms[m] \in DOMAIN doc}}

\* d1 holds every query n-gram d2 holds, with the same frequency, and at
\* least one more; the two tables have the same number of terms
HoldsMore(query, d1, d2) ==
    /\ Cardinality(DOMAIN d1) = Cardinality(DOMAIN d2)
    /\ \A t \in FoundTerms(query, d2) : t \in DOMAIN d1 /\ d1[t] = d2[t]
    /\ FoundTerms(query, d1) \ FoundTerms(query, d2) # {}

\* C18: when a processed document d1 is scored and another processed
\* document d2 of the same size holds only query n-grams that d1 holds with
\* the same frequency, while d1 holds at least one more, the score of d1 is
\* strictly greater than the score of d2; with doc1 and doc2 of the test,
\* "programming languages" ranks doc2 above doc1 and "test document" ranks
\* doc1 above doc2.
C18_ExactPhraseOutranksPartial ==
    lastScore.kind = "score" =>
        /\ \A i, j \in 1..Len(docs) :
              (docs[i] = lastScore.doc /\ HoldsMore(lastScore.query, docs[i], docs[j]))
                  => FGreater(lastScore.score,
                              ScoreOf(lastScore.query, docs[j], idf, avgdl))
        /\ (docs = <<doc1, doc2>> /\ lastScore.doc = doc2
                /\ lastScore.query = <<"programming", "languages">>)
              => FGreater(lastScore.score, ScoreOf(lastScore.query, doc1, idf, avgdl))
        /\ (docs = <<doc1, doc2>> /\ lastScore.doc = doc1
                /\ lastScore.query = <<"test", "document">>)
              => FGreater(lastScore.score, ScoreOf(lastScore.query, doc2, idf, avgdl))

\* C18 witness: doc1 and doc2 are processed in the order of the test and
\* doc2 is scored for "programming languages", of which it holds the two
\* words and the bigram while doc1 holds one word.
C18_Witness ==
    /\ docs = <<doc1, doc2>>
    /\ lastScore.kind = "score"
    /\ lastScore.doc = doc2
    /\ lastScore.query = <<"programming", "languages">>
    /\ HoldsMore(lastScore.query, doc2, doc1)
    /\ FoundTerms(lastScore.query, doc1) # {}

\* the 1-based arrival index of the first processed document holding term
FirstArrival(ds, term) ==
    CHOOSE k \in 1..Len(ds) :
        /\ term \in DOMAIN ds[k]
        /\ \A m \in 1..(k - 1) : term \notin DOMAIN ds[m]

\* the terms whose first processed document is the k-th
NewTerms(ds, k) ==
    {t \in DOMAIN ds[k] : \A m \in 1..(k - 1) : t \notin DOMAIN ds[m]}

\* C20: every term of a processed document has a cached IDF, equal to
\* ln(1 + (k - 0.5)/1.5) = ln((2k + 2)/3) where k is the arrival index of the
\* first processed document holding the term, whatever the number of
\* documents holding it now; a term first seen later has a strictly larger
\* IDF.
C20_IdfFromFirstArrival ==
    /\ \A k \in 1..Len(docs) :
          /\ IdfValue(k, 1) = FFin(LnRatio(2 * k + 2, 3))
          /\ \A t \in NewTerms(docs, k) :
                t \in DOMAIN idf /\ idf[t] = IdfValue(k, 1)
    /\ \A k, l \in 1..Len(docs) :
          k < l => \A t \in NewTerms(docs, k), u \in NewTerms(docs, l) :
                      FGreater(idf[u], idf[t])

\* C20 witness: two documents are processed, a term of the first is held by
\* both, and the second brings a term of its own.
C20_Witness ==
    /\ Len(docs) = 2
    /\ \E t, u \in AllTerms(docs) :
          /\ FirstArrival(docs, t) = 1
          /\ DocCount(docs, t) = 2
          /\ FirstArrival(docs, u) = 2
          /\ FGreater(idf[u], idf[t])


-----------------------------------------------------------------------------
(* Analyze over every document, and ApplyChanges, run on the slice Analyze   *)
(* returned for one document or for all of them.  ana gains the              *)
(* fields dryRun, remaining (the suggestions not yet applied) and calls (the *)
(* InsertLink calls made, each with the result it gave).                     *)

\* the path of file p as bytes: "f1.md", "f2.md", ...
PathName(p) ==
    <<"f", <<"1", "2", "3", "4", "5", "6", "7", "8", "9">>[p], ".", "m", "d">>

\* ApplyChanges up to the loop: with DryRun set it returns nil at once
ApplyStart(dryRun) ==
    /\ ana.phase = "done"
    /\ ana' = [phase |-> IF dryRun \/ ana.suggestions = <<>> THEN "applied" ELSE "applying",
               docs |-> ana.docs,
               suggestions |-> ana.suggestions, dryRun |-> dryRun,
               remaining |-> IF dryRun THEN <<>> ELSE ana.suggestions,
               calls |-> <<>>]
    /\ UNCHANGED <<docs, avgdl, idf, lastScore, cch>>

\* one pass of the loop of ApplyChanges: the file is read, InsertLink is
\* called, and the file is written unless InsertLink failed, in which case
\* ApplyChanges returns the error
ApplyStep ==
    /\ ana.phase = "applying"
    /\ LET suggestion == Head(ana.remaining)
           content == cch.files[suggestion.SourcePath].content
           r == InsertLink(content, suggestion.WordToLink,
                           PathName(suggestion.TargetPath), suggestion.Position)
           call == [suggestion |-> suggestion, read |-> content, result |-> r]
       IN  /\ ana' = [ana EXCEPT
                        !.phase = IF ~r.ok THEN "failed"
                                  ELSE IF Len(ana.remaining) = 1 THEN "applied"
                                  ELSE "applying",
                        !.remaining = IF r.ok THEN Tail(@) ELSE @,
                        !.calls = Append(@, call)]
           /\ cch' = IF r.ok
                     THEN [cch EXCEPT !.files[suggestion.SourcePath] =
                                         [content |-> r.content, mtime |-> cch.now]]
                     ELSE cch
    /\ UNCHANGED <<docs, avgdl, idf, lastScore>>

NextApply ==
    \/ NextAnalyzer
    \/ \E source \in AnaPaths : StartDocument(source) /\ UNCHANGED <<ins, prs>>
    \/ \E dryRun \in BOOLEAN : ApplyStart(dryRun) /\ UNCHANGED <<ins, prs>>
    \/ ApplyStep /\ UNCHANGED <<ins, prs>>

SpecApply == InitAnalyzer /\ [][NextApply]_vars

-----------------------------------------------------------------------------
(* claims about ApplyChanges, checked under SpecApply *)

\* the bytes the links of the suggestions placed before position add
ShiftBefore(suggestions, position) ==
    LET before == {i \in 1..Len(suggestions) : suggestions[i].Position < position}
        added == [i \in before |-> Len(PathName(suggestions[i].TargetPath)) + 4]
        sum[S \in SUBSET before] ==
            IF S = {} THEN 0
            ELSE LET i == CHOOSE x \in S : TRUE IN added[i] + sum[S \ {i}]
    IN  sum[before]

\* the term of suggestion s stands in final as a link to its target, at the
\* place its Position designated in the original content
WrappedAt(final, suggestions, s) ==
    LET link == LinkText(s.WordToLink, PathName(s.TargetPath))
    IN  OccursAt(final, link, s.Position + ShiftBefore(suggestions, s.Position))

\* C21 (as claimed): every InsertLink call ApplyChanges makes succeeds, in
\* whatever order the suggestions stand in the list, and when ApplyChanges
\* has returned without error the file holds, for every suggestion, its term
\* wrapped in a link at the occurrence its Position designated in the
\* original content.
C21_AppliesEverySuggestion ==
    /\ ana.phase # "failed"
    /\ (ana.phase = "applied" /\ ~ana.dryRun) =>
          \A i \in 1..Len(ana.suggestions) :
              LET s == ana.suggestions[i]
              IN  WrappedAt(cch.files[s.SourcePath].content,
                            SelectSeq(ana.suggestions,
                                      LAMBDA x : x.SourcePath = s.SourcePath), s)

=============================================================================
